---- MODULE Spec2Model ----
(***************************************************************************)
(* Model of the episode document store of lingohow-render-api-service      *)
(* (src/services/episode_service.py, class EpisodeService).                *)
(*                                                                         *)
(* The storage directory holds, per episode id, a document file            *)
(* EP<id>.json and a lock file EP<id>.lock.  Every operation is a call;    *)
(* calls run concurrently (threads of one process or several processes)    *)
(* and interleave at their file-system accesses.                           *)
(*                                                                         *)
(* `with FileLock(lock_path, timeout=...)` is the filelock library: it     *)
(* opens the file that the lock path names at that moment (creating it     *)
(* when the path names none) and takes an exclusive flock on that FILE,    *)
(* polling until the timeout.  The lock therefore belongs to the file      *)
(* (inode), not to the path: a lock file that delete_episode unlinks stays *)
(* locked by its holder while the path can name a fresh file.  One         *)
(* acquisition attempt of the library is one step of the model.            *)
(***************************************************************************)
EXTENDS Integers, Sequences, FiniteSets, TLC

\* ------------------------------------------------------------------ bounds
MaxCalls == 2        \* calls made in one behaviour
MaxClock == 1        \* largest value datetime.utcnow() returns

Callers == {"c1", "c2"}                   \* concurrent callers (threads or processes)
Episodes == {1, 2}
InitVersions == {1}                       \* versions of the documents found at start-up

\* (sentences, metadata) arguments of save_episode and update_episode: no
\* metadata and an empty list, or a mapping and one sentence.
SaveArgs == {[ss |-> <<>>, m |-> "None"], [ss |-> <<"a">>, m |-> "m1"]}

\* (sentence_index, sentence_data) arguments of update_sentence: a negative
\* index, the two indices of a two-sentence document, and an index past its
\* end; the data differ with the index.
UpdArgs == {[idx |-> -1, s |-> "a"], [idx |-> 0, s |-> "a"],
            [idx |-> 1, s |-> "b"], [idx |-> 2, s |-> "b"]}

\* ---- the audio pipelines
MaxRuns == 2         \* runs of a pipeline in one behaviour
MaxRetries == 2      \* largest max_retries passed to generate_phrase_audio_async
DefaultMaxRetries == 2   \* max_retries: int = 2
MaxLen == 2          \* longest generated phrase the helpers are applied to
MaxSentences == 2    \* most sentences in one request to the sentence-audio endpoint
MaxFiles == 2        \* most files in one store's upload list
MaxWorkers == 2      \* largest max_concurrent and max_workers
MaxPages == 3        \* most pages a store serves its objects in

Stores == {"r2", "cos"}
Keys == {1, 2}                  \* fingerprints; a text is written as its fingerprint
EmptyText == 0                  \* a text that is empty once stripped
Batches == {<<1, 2>>, <<EmptyText, 1>>}     \* batches passed to the batch pipeline
Phrases == {<<1>>, <<EmptyText>>}           \* phrases passed to the phrase pipeline
FileStates == {"absent", "empty", "full"}   \* no file, a file of size 0, a file of size > 0

VARIABLES
    fs,        \* fs[e]: content of EP<e>.json (no file, unparseable, or a document)
    lockIno,   \* lockIno[e]: the file EP<e>.lock names now (0: the path names no file)
    lockGen,   \* lockGen[e]: lock files created so far for e (names fresh files)
    clock,     \* last value datetime.utcnow() returned
    started,   \* number of calls made so far
    pc,        \* pc[c]: where the call of caller c stands ("idle": not in a call)
    arg,       \* arg[c]: operation and arguments of c's current or last call
    loc,       \* loc[c]: the local episode_data of c's call
    held,      \* held[c]: the lock file c holds the flock of (0: none)
    ret,       \* ret[c]: how c's last call ended (result or exception)
    ver0,      \* history: ver0[e] is the version stored in e's document at start-up (0: none)
    lastVer,   \* history: the version the last successful write to e stored (ver0[e] before any)
    okUpd,     \* history: okUpd[e] counts the update_sentence calls on e that wrote
    \* ---- the audio pipelines (check_and_generate_audio.py, phrase_audio_generator.py)
    configured,    \* configured[s]: every environment variable of store s is set
    bucket,        \* bucket[s]: fingerprints of the audio objects store s holds
    audio_dir,     \* audio_dir[k]: the local file of fingerprint k (absent, empty, full)
    edge_tts,      \* check_edge_tts_available()
    mode,          \* which pipeline this behaviour runs ("none": the episode service)
    sentences,     \* the batch (or the one phrase) every run is given
    run,           \* number of runs started so far
    step,          \* where the current run stands
    listing,       \* listing[s]: how this run's look-up of store s went
    found,         \* found[s]: fingerprints this run's check reported present in s
    missing,       \* missing_audio_sentences of this run
    local_files,   \* local_files of this run
    need_generate, \* need_generate of this run
    synth,         \* fingerprints this run passed to synthesis, in order
    gen_failed,    \* fingerprints whose synthesis failed in this run
    upload_files,  \* upload_files[s]: the list handed to store s's sub-pipeline
    status,        \* status[s]: state and statistics marker of store s's sub-pipeline
    attempts,      \* attempts[s]: uploads to s this run attempted, in order
    failed,        \* failed[s]: fingerprints whose upload to s failed in this run
    outcome,       \* how the last run ended
    prev_clean,    \* history: the run before this one had no failed synthesis or upload
    \* ---- one call of generate_phrase_audio_async (phrase_audio_generator.py)
    tts_available, \* EDGE_TTS_AVAILABLE
    gen_phrase,    \* the call's phrase: "text", or "blank" (empty once stripped)
    max_retries,   \* the call's max_retries
    out_file,      \* the file at output_path (absent, empty, full)
    gen_pc,        \* where the call stands
    attempt,       \* the loop variable attempt
    gen_log,       \* outcomes of the attempts made so far, in order
    slept,         \* number of asyncio.sleep(1) delays so far
    gen_ret,       \* what the call returned ("none": not returned)
    \* ---- the phrase helpers (phrase_helpers.py); a text is the sequence of its characters
    phrase,            \* the phrase the helpers are applied to
    variant,           \* a phrase that differs from it by punctuation characters only
    applied,           \* the helpers applied so far
    clean_filename,    \* clean_phrase_filename(phrase)
    formatted_for_tts, \* format_phrase_for_tts(phrase)
    phrase_hash,       \* generate_phrase_hash(phrase)
    variant_hash,      \* generate_phrase_hash(variant)
    \* ---- the sentence-audio endpoint (main.py, generate_sentence_audio)
    body_sentences,        \* body.sentences, each sentence written as its fingerprint
    api_edge_tts,          \* check_edge_tts_available()
    api_pc,                \* position of the handler
    processed_sentences,   \* what generate_batch_audio returned
    api_upload_files,      \* the handler's list upload_files
    response,              \* what the handler answered ("none": not yet)
    \* ---- the keys of one batch and of one phrase; a text is the sequence of its characters
    key_mode,          \* "batch" or "phrase" ("none": not in use)
    key_batch,         \* the texts of the batch
    key_phrase,        \* the phrase
    key_found,         \* key_found[s]: the file names the listing of store s returned
    key_pc,            \* where the run stands
    key_results,       \* all_results of check_all_sentences
    key_missing,       \* missing_audio_sentences, the list generate_and_upload_audio gets
    key_local_files,   \* the sentence_hash of each entry of local_files
    key_lookups,       \* per local file: its key, object key and the check record found for it
    key_names,         \* the phrase run's names and keys
    \* ---- one call of upload_audio_files (storage_service.py)
    n_files,           \* n_files[s]: length of the list for store s
    max_concurrent,    \* batch_upload_r2's max_concurrent, the size of the semaphore
    max_workers,       \* batch_upload_cos's max_workers, the size of the thread pool
    r2_pc,             \* where batch_upload_r2 stands
    s3_client,         \* the shared client: "none", "open", "released"
    clients_created,   \* history: clients made by this batch
    tasks,             \* tasks[i]: "new" (not made), "waiting" for the semaphore, "uploading", "done"
    task_client,       \* history: task_client[i] is the client's state when upload i called it
    cos_pc,            \* where batch_upload_cos stands
    futures,           \* futures[i]: "new" (not submitted), "queued" in the pool, "running", "done"
    \* ---- one bulk listing of one store (check_and_generate_audio.py)
    ls_store,          \* the store listed
    ls_library,        \* the store's client library can be imported
    ls_configured,     \* every environment variable of the store is set
    ls_pages,          \* the pages in which the store serves its objects
    ls_pc,             \* where the call stands
    ls_token,          \* continuation_token / marker (NoToken: None or '')
    existing_files,    \* existing_files
    requested,         \* history: the pages requested so far, in order
    ls_how,            \* how the call ended ("none": not yet)
    ls_result,         \* the set the call returned
    ls_present         \* the fingerprints check_all_sentences found in the set

hist == <<ver0, lastVer, okUpd>>
audio == <<configured, bucket, audio_dir, edge_tts, mode, sentences, run, step, listing,
           found, missing, local_files, need_generate, synth, gen_failed, upload_files,
           status, attempts, failed, outcome, prev_clean>>
episodes == <<fs, lockIno, lockGen, clock, started, pc, arg, loc, held, ret, ver0, lastVer, okUpd>>
synthesis == <<tts_available, gen_phrase, max_retries, out_file, gen_pc, attempt, gen_log,
               slept, gen_ret>>
text == <<phrase, variant, applied, clean_filename, formatted_for_tts, phrase_hash,
          variant_hash>>
endpoint == <<body_sentences, api_edge_tts, api_pc, processed_sentences, api_upload_files,
              response>>
keys == <<key_mode, key_batch, key_phrase, key_found, key_pc, key_results, key_missing,
          key_local_files, key_lookups, key_names>>
uploads == <<n_files, max_concurrent, max_workers, r2_pc, s3_client, clients_created, tasks,
             task_client, cos_pc, futures>>
lists == <<ls_store, ls_library, ls_configured, ls_pages, ls_pc, ls_token, existing_files,
           requested, ls_how, ls_result, ls_present>>
helpers == <<synthesis, text, endpoint, keys, uploads, lists>>
vars == <<episodes, audio, helpers>>

\* ------------------------------------------------------------ file content
NoFile == [kind |-> "none"]
BadJson == [kind |-> "bad"]              \* a file json.loads rejects
JsonFile(d) == [kind |-> "json", data |-> d]

NoData == [episode_id |-> 0, sentences |-> <<>>, metadata |-> "{}",
           created_at |-> 0, updated_at |-> 0, version |-> 0]
NoArg == [op |-> "none", eid |-> 0, idx |-> 0, sentence |-> "-",
          sentences |-> <<>>, meta |-> "None"]
NoRet == [kind |-> "none", eid |-> 0, version |-> 0, n |-> 0]

\* A result dict: episode_id, version and sentence_count / sentence_index.
Ok(e, v, n) == [kind |-> "ok", eid |-> e, version |-> v, n |-> n]
Raised(k) == [kind |-> k, eid |-> 0, version |-> 0, n |-> 0]

\* episode_path.exists()
Exists(e) == fs[e].kind # "none"

\* `metadata or {}`: None and the empty mapping are stored as {}.
MetaOr(m) == IF m = "None" THEN "{}" ELSE m

\* The document save_episode builds before it takes the lock.
NewDocument(e, ss, m, t1, t2) ==
    [episode_id |-> e, sentences |-> ss, metadata |-> MetaOr(m),
     created_at |-> t1, updated_at |-> t2, version |-> 1]

\* Variant: the existing document's version is carried over, not incremented.
MergeExistingKeepsVersion(new, file) ==
    IF file.kind = "json"
    THEN [new EXCEPT !.created_at = file.data.created_at,
                     !.version = file.data.version]
    ELSE new

\* Variant: the existing document's created_at is not carried over.
MergeExistingNewCreatedAt(new, file) ==
    IF file.kind = "json"
    THEN [new EXCEPT !.version = file.data.version + 1]
    ELSE new

\* save_episode under the lock: an existing parseable document gives its
\* created_at and its version + 1; an unparseable one is logged and ignored.
MergeExisting(new, file) ==
    IF file.kind = "json"
    THEN [new EXCEPT !.created_at = file.data.created_at,
                     !.version = file.data.version + 1]
    ELSE new

\* Variant: only the upper bound is checked, so a negative index passes.
IndexOutOfRangeUpperOnly(idx, d) == idx >= Len(d.sentences)

\* update_sentence's bounds check.
IndexOutOfRange(idx, d) == idx < 0 \/ idx >= Len(d.sentences)

\* Position (1-based) a Python list gives to index idx of a list of length n.
PyIndex(idx, n) == IF idx < 0 THEN idx + n + 1 ELSE idx + 1

\* Variant: the sentence is appended instead of replacing element idx.
UpdatedDocumentAppends(d, idx, s, now) ==
    [d EXCEPT !.sentences = Append(@, s),
              !.updated_at = now,
              !.version = d.version + 1]

\* update_sentence's mutation of the document it read.
UpdatedDocument(d, idx, s, now) ==
    [d EXCEPT !.sentences[PyIndex(idx, Len(d.sentences))] = s,
              !.updated_at = now,
              !.version = d.version + 1]

\* ------------------------------------------------------------------- locks
\* Variant: one lock path for all episodes.
LockedAnyEpisode(e, i) == \E q \in Callers : held[q] = i

\* Some caller holds the flock of lock file i of episode e.
Locked(e, i) == \E q \in Callers : arg[q].eid = e /\ held[q] = i

\* The file a FileLock attempt on e opens: the one the path names, or a new one.
OpenedLock(e) == IF lockIno[e] = 0 THEN lockGen[e] + 1 ELSE lockIno[e]

LockPc == {"save_lock", "read_lock", "upd_lock", "del_lock"}
AfterLock(p) == CASE p = "save_lock" -> "save_read"
                  [] p = "read_lock" -> "read_body"
                  [] p = "upd_lock" -> "upd_read"
                  [] p = "del_lock" -> "del_doc"

\* ------------------------------------------------------------------- Init
InitDocument(e, v) ==
    [episode_id |-> e, sentences |-> <<"s0", "s0">>, metadata |-> "{}",
     created_at |-> 0, updated_at |-> 0, version |-> v]

InitFiles(e) == {NoFile, BadJson} \cup {JsonFile(InitDocument(e, v)) : v \in InitVersions}

\* No pipeline runs: the state of the pipelines' variables in the behaviours
\* of the episode service.
NoAudio ==
    /\ configured = [s \in Stores |-> FALSE]
    /\ bucket = [s \in Stores |-> {}]
    /\ audio_dir = [k \in Keys |-> "absent"]
    /\ edge_tts = FALSE
    /\ mode = "none"
    /\ sentences = <<>>
    /\ run = 0
    /\ step = "idle"
    /\ listing = [s \in Stores |-> "none"]
    /\ found = [s \in Stores |-> {}]
    /\ missing = <<>>
    /\ local_files = <<>>
    /\ need_generate = <<>>
    /\ synth = <<>>
    /\ gen_failed = {}
    /\ upload_files = [s \in Stores |-> <<>>]
    /\ status = [s \in Stores |-> "idle"]
    /\ attempts = [s \in Stores |-> <<>>]
    /\ failed = [s \in Stores |-> {}]
    /\ outcome = "none"
    /\ prev_clean = TRUE

\* generate_phrase_audio_async is not called.
NoSynthesis ==
    /\ tts_available = FALSE
    /\ gen_phrase = "blank"
    /\ max_retries = 0
    /\ out_file = "absent"
    /\ gen_pc = "idle"
    /\ attempt = 0
    /\ gen_log = <<>>
    /\ slept = 0
    /\ gen_ret = "none"

\* No phrase helper is applied.
NoText ==
    /\ phrase = <<>>
    /\ variant = <<>>
    /\ applied = {}
    /\ clean_filename = <<>>
    /\ formatted_for_tts = <<>>
    /\ phrase_hash = <<>>
    /\ variant_hash = <<>>

\* The sentence-audio endpoint is not in use.
NoEndpoint ==
    /\ body_sentences = <<>>
    /\ api_edge_tts = FALSE
    /\ api_pc = "idle"
    /\ processed_sentences = <<>>
    /\ api_upload_files = <<>>
    /\ response = "none"

NoNames == [clean_filename |-> <<>>, formatted_for_tts |-> <<>>, audio_filename |-> <<>>,
            object_key |-> <<>>, checked_key |-> <<>>, sent_to_tts |-> <<>>,
            uploaded_key |-> <<>>, uploaded_file |-> <<>>]

\* No key is computed.
NoKeys ==
    /\ key_mode = "none"
    /\ key_batch = <<>>
    /\ key_phrase = <<>>
    /\ key_found = [s \in Stores |-> {}]
    /\ key_pc = "idle"
    /\ key_results = <<>>
    /\ key_missing = <<>>
    /\ key_local_files = <<>>
    /\ key_lookups = <<>>
    /\ key_names = NoNames

\* upload_audio_files is not followed at this grain.
NoUploads ==
    /\ n_files = [s \in Stores |-> 0]
    /\ max_concurrent = 0
    /\ max_workers = 0
    /\ r2_pc = "idle"
    /\ s3_client = "none"
    /\ clients_created = 0
    /\ tasks = <<>>
    /\ task_client = <<>>
    /\ cos_pc = "idle"
    /\ futures = <<>>

\* No bulk listing is followed at this grain.
NoLists ==
    /\ ls_store = "r2"
    /\ ls_library = FALSE
    /\ ls_configured = FALSE
    /\ ls_pages = <<>>
    /\ ls_pc = "idle"
    /\ ls_token = 0
    /\ existing_files = {}
    /\ requested = <<>>
    /\ ls_how = "none"
    /\ ls_result = {}
    /\ ls_present = {}

NoHelpers == NoSynthesis /\ NoText /\ NoEndpoint /\ NoKeys /\ NoUploads /\ NoLists

Init ==
    /\ NoAudio
    /\ NoHelpers
    /\ fs \in {f \in [Episodes -> UNION {InitFiles(e) : e \in Episodes}] :
                 \A e \in Episodes : f[e] \in InitFiles(e)}
    /\ lockIno = [e \in Episodes |-> IF fs[e].kind = "none" THEN 0 ELSE 1]
    /\ lockGen = lockIno
    /\ clock = 0
    /\ started = 0
    /\ pc = [c \in Callers |-> "idle"]
    /\ arg = [c \in Callers |-> NoArg]
    /\ loc = [c \in Callers |-> NoData]
    /\ held = [c \in Callers |-> 0]
    /\ ret = [c \in Callers |-> NoRet]
    /\ ver0 = [e \in Episodes |-> IF fs[e].kind = "json" THEN fs[e].data.version ELSE 0]
    /\ lastVer = ver0
    /\ okUpd = [e \in Episodes |-> 0]

\* A caller not in a call makes the next one.
CanStart(c) == pc[c] = "idle" /\ started < MaxCalls

\* A call ends, outside the `with` block, with result or exception r; its
\* local episode_data is gone.
Ended(c, r) ==
    /\ ret' = [ret EXCEPT ![c] = r]
    /\ pc' = [pc EXCEPT ![c] = "idle"]
    /\ loc' = [loc EXCEPT ![c] = NoData]

\* ---------------------------------------------------------- save_episode
\* save_episode up to the `with FileLock`: builds episode_data from two
\* readings of the clock.
StartSave(c, e, ss, m) ==
    /\ CanStart(c)
    /\ \E t1 \in clock..MaxClock : \E t2 \in t1..MaxClock :
         /\ loc' = [loc EXCEPT ![c] = NewDocument(e, ss, m, t1, t2)]
         /\ clock' = t2
    /\ arg' = [arg EXCEPT ![c] = [NoArg EXCEPT !.op = "save_episode", !.eid = e,
                                               !.sentences = ss, !.meta = m]]
    /\ pc' = [pc EXCEPT ![c] = "save_lock"]
    /\ ret' = [ret EXCEPT ![c] = NoRet]
    /\ started' = started + 1
    /\ UNCHANGED <<audio, helpers, fs, lockIno, lockGen, held, hist>>

\* update_episode is a call of save_episode with the same arguments.
StartUpdateEpisode(c, e, ss, m) == StartSave(c, e, ss, m)

\* Under the lock: look at the existing file.
SaveRead(c) ==
    /\ pc[c] = "save_read"
    /\ loc' = [loc EXCEPT ![c] = MergeExisting(loc[c], fs[arg[c].eid])]
    /\ pc' = [pc EXCEPT ![c] = "save_write"]
    /\ UNCHANGED <<audio, helpers, fs, lockIno, lockGen, clock, started, arg, held, ret, hist>>

\* Under the lock: write the whole document and build the result.
SaveWrite(c) ==
    /\ pc[c] = "save_write"
    /\ fs' = [fs EXCEPT ![arg[c].eid] = JsonFile(loc[c])]
    /\ ret' = [ret EXCEPT ![c] = Ok(arg[c].eid, loc[c].version, Len(arg[c].sentences))]
    /\ pc' = [pc EXCEPT ![c] = "exit"]
    /\ lastVer' = [lastVer EXCEPT ![arg[c].eid] = loc[c].version]
    /\ UNCHANGED <<audio, helpers, lockIno, lockGen, clock, started, arg, loc, held, ver0, okUpd>>

\* ---------------------------------------------------------- read_episode
\* read_episode up to the `with FileLock`: the existence check.
StartRead(c, e) ==
    /\ CanStart(c)
    /\ started' = started + 1
    /\ arg' = [arg EXCEPT ![c] = [NoArg EXCEPT !.op = "read_episode", !.eid = e]]
    /\ IF Exists(e)
       THEN /\ pc' = [pc EXCEPT ![c] = "read_lock"]
            /\ ret' = [ret EXCEPT ![c] = NoRet]
            /\ UNCHANGED loc
       ELSE Ended(c, Raised("EpisodeNotFoundError"))
    /\ UNCHANGED <<audio, helpers, fs, lockIno, lockGen, clock, held, hist>>

\* Under the lock: read_text and json.loads.  A missing file raises
\* FileNotFoundError, which no except clause of read_episode catches; a
\* JSONDecodeError is re-raised as EpisodeServiceError.
ReadBody(c) ==
    /\ pc[c] = "read_body"
    /\ LET f == fs[arg[c].eid]
       IN ret' = [ret EXCEPT ![c] =
                    CASE f.kind = "none" -> Raised("FileNotFoundError")
                      [] f.kind = "bad" -> Raised("EpisodeServiceError")
                      [] OTHER -> Ok(f.data.episode_id, f.data.version, Len(f.data.sentences))]
    /\ pc' = [pc EXCEPT ![c] = "exit"]
    /\ UNCHANGED <<audio, helpers, fs, lockIno, lockGen, clock, started, arg, loc, held, hist>>

\* -------------------------------------------------------- update_sentence
\* update_sentence up to the `with FileLock`: the existence check.
StartUpdateSentence(c, e, idx, s) ==
    /\ CanStart(c)
    /\ started' = started + 1
    /\ arg' = [arg EXCEPT ![c] = [NoArg EXCEPT !.op = "update_sentence", !.eid = e,
                                               !.idx = idx, !.sentence = s]]
    /\ IF Exists(e)
       THEN /\ pc' = [pc EXCEPT ![c] = "upd_lock"]
            /\ ret' = [ret EXCEPT ![c] = NoRet]
            /\ UNCHANGED loc
       ELSE Ended(c, Raised("EpisodeNotFoundError"))
    /\ UNCHANGED <<audio, helpers, fs, lockIno, lockGen, clock, held, hist>>

\* Variant: the lock covers the read only; it is dropped before the write.
UpdReadDropsLock(c) ==
    /\ pc[c] = "upd_read"
    /\ LET f == fs[arg[c].eid]
       IN IF f.kind = "json" /\ ~IndexOutOfRange(arg[c].idx, f.data)
          THEN /\ loc' = [loc EXCEPT ![c] = f.data]
               /\ pc' = [pc EXCEPT ![c] = "upd_write"]
               /\ held' = [held EXCEPT ![c] = 0]
               /\ UNCHANGED ret
          ELSE /\ ret' = [ret EXCEPT ![c] =
                            CASE f.kind = "none" -> Raised("FileNotFoundError")
                              [] f.kind = "bad" -> Raised("EpisodeServiceError")
                              [] OTHER -> Raised("IndexError")]
               /\ pc' = [pc EXCEPT ![c] = "exit"]
               /\ UNCHANGED <<loc, held>>
    /\ UNCHANGED <<audio, helpers, fs, lockIno, lockGen, clock, started, arg, hist>>

\* Under the lock: read the document and check the index.
UpdRead(c) ==
    /\ pc[c] = "upd_read"
    /\ LET f == fs[arg[c].eid]
       IN IF f.kind = "json" /\ ~IndexOutOfRange(arg[c].idx, f.data)
          THEN /\ loc' = [loc EXCEPT ![c] = f.data]
               /\ pc' = [pc EXCEPT ![c] = "upd_write"]
               /\ UNCHANGED ret
          ELSE /\ ret' = [ret EXCEPT ![c] =
                            CASE f.kind = "none" -> Raised("FileNotFoundError")
                              [] f.kind = "bad" -> Raised("EpisodeServiceError")
                              [] OTHER -> Raised("IndexError")]
               /\ pc' = [pc EXCEPT ![c] = "exit"]
               /\ UNCHANGED loc
    /\ UNCHANGED <<audio, helpers, fs, lockIno, lockGen, clock, started, arg, held, hist>>

\* Under the lock: replace the sentence, stamp updated_at, bump the version,
\* write back and build the result.
UpdWrite(c) ==
    /\ pc[c] = "upd_write"
    /\ \E now \in clock..MaxClock :
         LET d == UpdatedDocument(loc[c], arg[c].idx, arg[c].sentence, now)
         IN /\ clock' = now
            /\ loc' = [loc EXCEPT ![c] = d]
            /\ fs' = [fs EXCEPT ![arg[c].eid] = JsonFile(d)]
            /\ ret' = [ret EXCEPT ![c] = Ok(arg[c].eid, d.version, arg[c].idx)]
            /\ lastVer' = [lastVer EXCEPT ![arg[c].eid] = d.version]
    /\ okUpd' = [okUpd EXCEPT ![arg[c].eid] = @ + 1]
    /\ pc' = [pc EXCEPT ![c] = "exit"]
    /\ UNCHANGED <<audio, helpers, lockIno, lockGen, started, arg, held, ver0>>

\* --------------------------------------------------------- delete_episode
\* delete_episode up to the `with FileLock`: the existence check.
StartDelete(c, e) ==
    /\ CanStart(c)
    /\ started' = started + 1
    /\ arg' = [arg EXCEPT ![c] = [NoArg EXCEPT !.op = "delete_episode", !.eid = e]]
    /\ IF Exists(e)
       THEN /\ pc' = [pc EXCEPT ![c] = "del_lock"]
            /\ ret' = [ret EXCEPT ![c] = NoRet]
            /\ UNCHANGED loc
       ELSE Ended(c, Raised("EpisodeNotFoundError"))
    /\ UNCHANGED <<audio, helpers, fs, lockIno, lockGen, clock, held, hist>>

\* Variant: the document is emptied instead of unlinked.
DelDocTruncates(c) ==
    /\ pc[c] = "del_doc"
    /\ IF Exists(arg[c].eid)
       THEN /\ fs' = [fs EXCEPT ![arg[c].eid] = BadJson]
            /\ pc' = [pc EXCEPT ![c] = "del_lockfile"]
            /\ UNCHANGED ret
       ELSE /\ ret' = [ret EXCEPT ![c] = Raised("FileNotFoundError")]
            /\ pc' = [pc EXCEPT ![c] = "exit"]
            /\ UNCHANGED fs
    /\ UNCHANGED <<audio, helpers, lockIno, lockGen, clock, started, arg, loc, held, hist>>

\* Under the lock: episode_path.unlink(); a missing file raises
\* FileNotFoundError, which delete_episode does not catch.
DelDoc(c) ==
    /\ pc[c] = "del_doc"
    /\ IF Exists(arg[c].eid)
       THEN /\ fs' = [fs EXCEPT ![arg[c].eid] = NoFile]
            /\ pc' = [pc EXCEPT ![c] = "del_lockfile"]
            /\ UNCHANGED ret
       ELSE /\ ret' = [ret EXCEPT ![c] = Raised("FileNotFoundError")]
            /\ pc' = [pc EXCEPT ![c] = "exit"]
            /\ UNCHANGED fs
    /\ UNCHANGED <<audio, helpers, lockIno, lockGen, clock, started, arg, loc, held, hist>>

\* Still under the lock: unlink the lock file if the path names one, and build
\* the result.
DelLockFile(c) ==
    /\ pc[c] = "del_lockfile"
    /\ lockIno' = [lockIno EXCEPT ![arg[c].eid] = 0]
    /\ ret' = [ret EXCEPT ![c] = Ok(arg[c].eid, 0, 0)]
    /\ pc' = [pc EXCEPT ![c] = "exit"]
    /\ UNCHANGED <<audio, helpers, fs, lockGen, clock, started, arg, loc, held, hist>>

\* ---------------------------------------------------------- list_episodes
\* A file of the storage directory that matches EP*.json but whose name has
\* no integer after "EP" (the service never creates one).
StrayFile == 0

\* sorted(storage_dir.glob("EP*.json")) for the documents in ids: by file
\* name, which for the one-digit ids of Episodes is by id, any stray file last.
RECURSIVE SortedFiles(_)
SortedFiles(ids) ==
    IF ids = {} THEN <<>>
    ELSE LET least == CHOOSE i \in ids : \A j \in ids : i <= j
         IN <<least>> \o SortedFiles(ids \ {least})

\* The entry list_episodes appends for file content f of episode e.
ListEntry(e, f) ==
    IF f.kind = "json"
    THEN [episode_id |-> e, error |-> FALSE,
          sentence_count |-> Len(f.data.sentences), version |-> f.data.version]
    ELSE [episode_id |-> e, error |-> TRUE, sentence_count |-> 0, version |-> 0]

\* The list list_episodes returns.
Listed(entries) ==
    [kind |-> "ok", eid |-> 0, version |-> 0, n |-> Len(entries), entries |-> entries]

\* list_episodes: the glob.  No lock is taken.  The directory holds one stray
\* file besides the documents.
StartList(c) ==
    /\ CanStart(c)
    /\ started' = started + 1
    /\ arg' = [arg EXCEPT ![c] = [NoArg EXCEPT !.op = "list_episodes"]]
    /\ loc' = [loc EXCEPT ![c] =
                 [todo |-> SortedFiles({e \in Episodes : Exists(e)}) \o <<StrayFile>>,
                  entries |-> <<>>]]
    /\ pc' = [pc EXCEPT ![c] = "list_scan"]
    /\ ret' = [ret EXCEPT ![c] = NoRet]
    /\ UNCHANGED <<audio, helpers, fs, lockIno, lockGen, clock, held, hist>>

\* Variant: an unparseable document aborts the listing.
ListReadAborts(c) ==
    /\ pc[c] = "list_scan"
    /\ LET e == Head(loc[c].todo)
           rest == Tail(loc[c].todo)
           entries == IF e = StrayFile THEN loc[c].entries
                      ELSE Append(loc[c].entries, ListEntry(e, fs[e]))
       IN IF e # StrayFile /\ fs[e].kind # "json"
          THEN Ended(c, Raised(IF Exists(e) THEN "EpisodeServiceError"
                                           ELSE "FileNotFoundError"))
          ELSE IF rest = <<>>
               THEN Ended(c, Listed(entries))
               ELSE /\ loc' = [loc EXCEPT ![c] = [todo |-> rest, entries |-> entries]]
                    /\ UNCHANGED <<pc, ret>>
    /\ UNCHANGED <<audio, helpers, fs, lockIno, lockGen, clock, started, arg, held, hist>>

\* list_episodes: one turn of the loop, and the return after the last one.
\* A stray name fails int() and is skipped; a file that is gone makes
\* read_text raise FileNotFoundError, which nothing catches.
ListRead(c) ==
    /\ pc[c] = "list_scan"
    /\ LET e == Head(loc[c].todo)
           rest == Tail(loc[c].todo)
           entries == IF e = StrayFile THEN loc[c].entries
                      ELSE Append(loc[c].entries, ListEntry(e, fs[e]))
       IN IF e # StrayFile /\ ~Exists(e)
          THEN Ended(c, Raised("FileNotFoundError"))
          ELSE IF rest = <<>>
               THEN Ended(c, Listed(entries))
               ELSE /\ loc' = [loc EXCEPT ![c] = [todo |-> rest, entries |-> entries]]
                    /\ UNCHANGED <<pc, ret>>
    /\ UNCHANGED <<audio, helpers, fs, lockIno, lockGen, clock, started, arg, held, hist>>

\* --------------------------------------------------------- episode_exists
CallExists(c, e) ==
    /\ CanStart(c)
    /\ started' = started + 1
    /\ arg' = [arg EXCEPT ![c] = [NoArg EXCEPT !.op = "episode_exists", !.eid = e]]
    /\ Ended(c, Ok(e, 0, IF Exists(e) THEN 1 ELSE 0))
    /\ UNCHANGED <<audio, helpers, fs, lockIno, lockGen, clock, held, hist>>

\* ---------------------------------------------------------- lock, release
\* Variant: an attempt succeeds whether or not the lock is taken.
AcquireOkNoExclusion(c) ==
    /\ pc[c] \in LockPc
    /\ LET e == arg[c].eid
           i == OpenedLock(e)
       IN /\ held' = [held EXCEPT ![c] = i]
          /\ lockIno' = [lockIno EXCEPT ![e] = i]
          /\ lockGen' = [lockGen EXCEPT ![e] = IF i > @ THEN i ELSE @]
    /\ pc' = [pc EXCEPT ![c] = AfterLock(pc[c])]
    /\ UNCHANGED <<audio, helpers, fs, clock, started, arg, loc, ret, hist>>

\* One attempt of FileLock.acquire that succeeds.
AcquireOk(c) ==
    /\ pc[c] \in LockPc
    /\ LET e == arg[c].eid
           i == OpenedLock(e)
       IN /\ ~Locked(e, i)
          /\ held' = [held EXCEPT ![c] = i]
          /\ lockIno' = [lockIno EXCEPT ![e] = i]
          /\ lockGen' = [lockGen EXCEPT ![e] = IF i > @ THEN i ELSE @]
    /\ pc' = [pc EXCEPT ![c] = AfterLock(pc[c])]
    /\ UNCHANGED <<audio, helpers, fs, clock, started, arg, loc, ret, hist>>

\* Variant: the timeout is swallowed and the call returns a result.
AcquireTimeoutSwallowed(c) ==
    /\ pc[c] \in LockPc
    /\ Locked(arg[c].eid, OpenedLock(arg[c].eid))
    /\ Ended(c, Ok(arg[c].eid, 0, 0))
    /\ UNCHANGED <<audio, helpers, fs, lockIno, lockGen, clock, started, arg, held, hist>>

\* The lock stayed taken until the timeout: filelock.Timeout, re-raised as
\* EpisodeLockError.
AcquireTimeout(c) ==
    /\ pc[c] \in LockPc
    /\ Locked(arg[c].eid, OpenedLock(arg[c].eid))
    /\ Ended(c, Raised("EpisodeLockError"))
    /\ UNCHANGED <<audio, helpers, fs, lockIno, lockGen, clock, started, arg, held, hist>>

\* Variant: the flock is dropped on return only, not when an exception leaves
\* the block.
ExitReleasesOnReturn(c) ==
    /\ pc[c] = "exit"
    /\ held' = [held EXCEPT ![c] = IF ret[c].kind = "ok" THEN 0 ELSE @]
    /\ Ended(c, ret[c])
    /\ UNCHANGED <<audio, helpers, fs, lockIno, lockGen, clock, started, arg, hist>>

\* Leaving the `with` block, by return or by exception: the flock is dropped
\* and the call ends with the result or the exception.
Exit(c) ==
    /\ pc[c] = "exit"
    /\ held' = [held EXCEPT ![c] = 0]
    /\ Ended(c, ret[c])
    /\ UNCHANGED <<audio, helpers, fs, lockIno, lockGen, clock, started, arg, hist>>

\* ------------------------------------------------------------------- Next
Next ==
    \E c \in Callers :
        \/ \E e \in Episodes, a \in SaveArgs : StartSave(c, e, a.ss, a.m)
        \/ \E e \in Episodes, a \in SaveArgs : StartUpdateEpisode(c, e, a.ss, a.m)
        \/ \E e \in Episodes : StartRead(c, e)
        \/ \E e \in Episodes, a \in UpdArgs : StartUpdateSentence(c, e, a.idx, a.s)
        \/ \E e \in Episodes : StartDelete(c, e)
        \/ SaveRead(c)
        \/ SaveWrite(c)
        \/ ReadBody(c)
        \/ UpdRead(c)
        \/ UpdWrite(c)
        \/ DelDoc(c)
        \/ DelLockFile(c)
        \/ AcquireOk(c)
        \/ AcquireTimeout(c)
        \/ Exit(c)

Spec == Init /\ [][Next]_vars

\* All operations of the service, list_episodes and episode_exists included.
NextAll ==
    \/ Next
    \/ \E c \in Callers :
          \/ StartList(c)
          \/ ListRead(c)
          \/ \E e \in Episodes : CallExists(c, e)

SpecAll == Init /\ [][NextAll]_vars

\* Only update_sentence callers.
NextUpd ==
    \E c \in Callers :
        \/ \E e \in Episodes, a \in UpdArgs : StartUpdateSentence(c, e, a.idx, a.s)
        \/ UpdRead(c)
        \/ UpdWrite(c)
        \/ AcquireOk(c)
        \/ AcquireTimeout(c)
        \/ Exit(c)

SpecUpd == Init /\ [][NextUpd]_vars

\* ============================================================ audio pipelines
\* The batch pipeline is main()'s sequence check_all_sentences, then
\* generate_and_upload_audio on the missing items; the phrase pipeline is
\* generate_and_upload_phrase_audio.  Both upload through upload_audio_files.

Range(q) == {q[i] : i \in 1..Len(q)}
HasText(k) == k # EmptyText

\* What one look-up of store s returns: the store's objects, or nothing when
\* the store is not configured or the look-up fails.
\* Variant: the look-up does not test the configuration.
ListingIgnoresConfig(s, ok) == IF ok THEN bucket[s] ELSE {}

Listing(s, ok) == IF configured[s] /\ ok THEN bucket[s] ELSE {}
ListingState(s, ok) == IF ~configured[s] THEN "config" ELSE IF ok THEN "ok" ELSE "failed"

\* Variant: an object in one store counts as present.
AudioExistsEither(k, f) == k \in f["r2"] \/ k \in f["cos"]

\* audio_exists = r2_exists and cos_exists
AudioExists(k, f) == k \in f["r2"] /\ k \in f["cos"]

\* missing_audio_sentences: the items with text that are not in both stores.
Missing(q, f) ==
    LET IsMissing(k) == HasText(k) /\ ~AudioExists(k, f)
    IN SelectSeq(q, IsMissing)

\* Variant: any local file counts as staged, whatever its size.
IsStagedAnySize(k) == audio_dir[k] # "absent"

\* audio_path.exists() and audio_path.stat().st_size > 0
IsStaged(k) == audio_dir[k] = "full"

\* Outcomes of one synthesis: a non-empty file, or a failure that leaves the
\* file as it was or leaves an empty file.
SynthResults == {"ok", "failed", "failed_empty"}
FileAfter(k, r) == CASE r = "ok" -> "full"
                     [] r = "failed" -> audio_dir[k]
                     [] OTHER -> "empty"

\* The run before had no failed synthesis and no failed upload.
RunClean ==
    /\ gen_failed = {}
    /\ \A s \in Stores : failed[s] = {} /\ status[s] # "error"

\* A run begins: what the run before left in its locals is gone.
NewRun ==
    /\ run < MaxRuns
    /\ step \in {"idle", "done"}
    /\ run' = run + 1
    /\ prev_clean' = RunClean
    /\ local_files' = <<>>
    /\ need_generate' = <<>>
    /\ synth' = <<>>
    /\ gen_failed' = {}
    /\ upload_files' = [s \in Stores |-> <<>>]
    /\ status' = [s \in Stores |-> "idle"]
    /\ attempts' = [s \in Stores |-> <<>>]
    /\ failed' = [s \in Stores |-> {}]

\* -------------------------------------------------------- batch pipeline
\* check_all_sentences: one listing per store, then the membership tests.
\* main() goes on to generate_and_upload_audio when something is missing.
CheckAll ==
    /\ mode = "batch"
    /\ NewRun
    /\ \E ok \in [Stores -> BOOLEAN] :
         LET f == [s \in Stores |-> Listing(s, ok[s])]
             m == Missing(sentences, f)
         IN /\ listing' = [s \in Stores |-> ListingState(s, ok[s])]
            /\ found' = f
            /\ missing' = m
            /\ step' = IF m = <<>> THEN "done" ELSE "generate"
            /\ outcome' = IF m = <<>> THEN "nothing_missing" ELSE "none"
    /\ UNCHANGED <<episodes, helpers, configured, bucket, audio_dir, edge_tts, mode, sentences>>

\* generate_and_upload_audio up to the synthesis: edge-tts must be there, and
\* the missing items are split into staged files and items to synthesize.
Partition ==
    /\ mode = "batch"
    /\ step = "generate"
    /\ IF ~edge_tts
       THEN /\ step' = "done"
            /\ outcome' = "Exception"
            /\ UNCHANGED <<local_files, need_generate>>
       ELSE LET NotStaged(k) == ~IsStaged(k)
            IN /\ local_files' = SelectSeq(missing, IsStaged)
               /\ need_generate' = SelectSeq(missing, NotStaged)
               /\ step' = IF need_generate' = <<>> THEN "prepare" ELSE "synthesize"
               /\ UNCHANGED outcome
    /\ UNCHANGED <<episodes, helpers, configured, bucket, audio_dir, edge_tts, mode, sentences, run,
                   listing, found, missing, synth, gen_failed, upload_files, status,
                   attempts, failed, prev_clean>>

\* Variant: one failed synthesis discards the files the others generated.
SynthesizeAllOrNothing ==
    /\ mode = "batch"
    /\ step = "synthesize"
    /\ \E res \in [1..Len(need_generate) -> SynthResults] :
         LET allOk == \A i \in 1..Len(need_generate) : res[i] = "ok"
         IN /\ audio_dir' = [k \in Keys |->
                               IF k \in Range(need_generate) /\ allOk THEN "full" ELSE audio_dir[k]]
            /\ gen_failed' = {need_generate[i] : i \in {j \in 1..Len(need_generate) : res[j] # "ok"}}
            /\ local_files' = IF allOk THEN local_files \o need_generate ELSE local_files
    /\ synth' = need_generate
    /\ step' = "prepare"
    /\ UNCHANGED <<episodes, helpers, configured, bucket, edge_tts, mode, sentences, run, listing,
                   found, missing, need_generate, upload_files, status, attempts, failed,
                   outcome, prev_clean>>

\* generate_batch_audio on need_generate: every item is synthesized, each with
\* its own outcome; the items that succeeded join local_files.
Synthesize ==
    /\ mode = "batch"
    /\ step = "synthesize"
    /\ \E res \in [1..Len(need_generate) -> SynthResults] :
         LET Last(k) == CHOOSE i \in 1..Len(need_generate) :
                           /\ need_generate[i] = k
                           /\ \A j \in (i+1)..Len(need_generate) : need_generate[j] # k
             done == [i \in 1..Len(need_generate) |->
                        IF res[i] = "ok" THEN need_generate[i] ELSE EmptyText]
         IN /\ audio_dir' = [k \in Keys |->
                               IF k \in Range(need_generate)
                               THEN FileAfter(k, res[Last(k)]) ELSE audio_dir[k]]
            /\ gen_failed' = {need_generate[i] : i \in {j \in 1..Len(need_generate) : res[j] # "ok"}}
            /\ local_files' = local_files \o SelectSeq(done, HasText)
    /\ synth' = need_generate
    /\ step' = "prepare"
    /\ UNCHANGED <<episodes, helpers, configured, bucket, edge_tts, mode, sentences, run, listing,
                   found, missing, need_generate, upload_files, status, attempts, failed,
                   outcome, prev_clean>>

\* Variant: every local file goes to both stores, whatever the check said.
PrepareForBothStores ==
    /\ mode = "batch"
    /\ step = "prepare"
    /\ LET OnDisk(k) == audio_dir[k] # "absent"
       IN upload_files' = [s \in Stores |-> SelectSeq(local_files, OnDisk)]
    /\ status' = [s \in Stores |-> IF upload_files'[s] = <<>> THEN "off" ELSE "todo"]
    /\ step' = "upload"
    /\ UNCHANGED <<episodes, helpers, configured, bucket, audio_dir, edge_tts, mode, sentences, run,
                   listing, found, missing, local_files, need_generate, synth, gen_failed,
                   attempts, failed, outcome, prev_clean>>

\* The two upload lists: a local file goes to the stores the check found it
\* missing from.  A store with an empty list is not uploaded to.
Prepare ==
    /\ mode = "batch"
    /\ step = "prepare"
    /\ upload_files' = [s \in Stores |->
                          LET Wanted(k) == audio_dir[k] # "absent" /\ k \notin found[s]
                          IN SelectSeq(local_files, Wanted)]
    /\ status' = [s \in Stores |-> IF upload_files'[s] = <<>> THEN "off" ELSE "todo"]
    /\ step' = "upload"
    /\ UNCHANGED <<episodes, helpers, configured, bucket, audio_dir, edge_tts, mode, sentences, run,
                   listing, found, missing, local_files, need_generate, synth, gen_failed,
                   attempts, failed, outcome, prev_clean>>

\* Variant: the first failed upload ends the sub-pipeline; the files after it
\* are not uploaded.
UploadStoreStopsAtFailure(s) ==
    /\ step = "upload"
    /\ status[s] = "todo"
    /\ \/ /\ ~configured[s]
          /\ status' = [status EXCEPT ![s] = "config"]
          /\ UNCHANGED <<bucket, attempts, failed>>
       \/ /\ configured[s]
          /\ s = "r2"
          /\ status' = [status EXCEPT ![s] = "error"]
          /\ UNCHANGED <<bucket, attempts, failed>>
       \/ /\ configured[s]
          /\ \E res \in [1..Len(upload_files[s]) -> BOOLEAN] :
               LET q == upload_files[s]
                   bad == {i \in 1..Len(q) : ~res[i] \/ audio_dir[q[i]] = "absent"}
                   n == IF bad = {} THEN Len(q)
                        ELSE CHOOSE i \in bad : \A j \in bad : i <= j
                   good == (1..n) \ bad
               IN /\ bucket' = [bucket EXCEPT ![s] = @ \cup {q[i] : i \in good}]
                  /\ failed' = [failed EXCEPT ![s] = {q[i] : i \in (1..n) \ good}]
                  /\ attempts' = [attempts EXCEPT ![s] = SubSeq(q, 1, n)]
          /\ status' = [status EXCEPT ![s] = "done"]
    /\ UNCHANGED <<episodes, helpers, configured, audio_dir, edge_tts, mode, sentences, run, step,
                   listing, found, missing, local_files, need_generate, synth, gen_failed,
                   upload_files, outcome, prev_clean>>

\* Variant: an unconfigured store attempts every upload and fails each.
UploadStoreTriesUnconfigured(s) ==
    /\ step = "upload"
    /\ status[s] = "todo"
    /\ \/ /\ ~configured[s]
          /\ status' = [status EXCEPT ![s] = "config"]
          /\ attempts' = [attempts EXCEPT ![s] = upload_files[s]]
          /\ failed' = [failed EXCEPT ![s] = Range(upload_files[s])]
          /\ UNCHANGED bucket
       \/ /\ configured[s]
          /\ s = "r2"
          /\ status' = [status EXCEPT ![s] = "error"]
          /\ UNCHANGED <<bucket, attempts, failed>>
       \/ /\ configured[s]
          /\ \E res \in [1..Len(upload_files[s]) -> BOOLEAN] :
               LET q == upload_files[s]
                   good == {i \in 1..Len(q) : res[i] /\ audio_dir[q[i]] # "absent"}
               IN /\ bucket' = [bucket EXCEPT ![s] = @ \cup {q[i] : i \in good}]
                  /\ failed' = [failed EXCEPT ![s] = {q[i] : i \in (1..Len(q)) \ good}]
                  /\ attempts' = [attempts EXCEPT ![s] = q]
          /\ status' = [status EXCEPT ![s] = "done"]
    /\ UNCHANGED <<episodes, helpers, configured, audio_dir, edge_tts, mode, sentences, run, step,
                   listing, found, missing, local_files, need_generate, synth, gen_failed,
                   upload_files, outcome, prev_clean>>

\* batch_upload_r2 / batch_upload_cos on the store's list.  An unconfigured
\* store returns at once with the error marker; batch_upload_r2 also returns
\* the marker when the batch as a whole raises; otherwise every file is
\* uploaded, each with its own outcome.
UploadStore(s) ==
    /\ step = "upload"
    /\ status[s] = "todo"
    /\ \/ /\ ~configured[s]
          /\ status' = [status EXCEPT ![s] = "config"]
          /\ UNCHANGED <<bucket, attempts, failed>>
       \/ /\ configured[s]
          /\ s = "r2"
          /\ status' = [status EXCEPT ![s] = "error"]
          /\ UNCHANGED <<bucket, attempts, failed>>
       \/ /\ configured[s]
          /\ \E res \in [1..Len(upload_files[s]) -> BOOLEAN] :
               LET q == upload_files[s]
                   good == {i \in 1..Len(q) : res[i] /\ audio_dir[q[i]] # "absent"}
               IN /\ bucket' = [bucket EXCEPT ![s] = @ \cup {q[i] : i \in good}]
                  /\ failed' = [failed EXCEPT ![s] = {q[i] : i \in (1..Len(q)) \ good}]
                  /\ attempts' = [attempts EXCEPT ![s] = q]
          /\ status' = [status EXCEPT ![s] = "done"]
    /\ UNCHANGED <<episodes, helpers, configured, audio_dir, edge_tts, mode, sentences, run, step,
                   listing, found, missing, local_files, need_generate, synth, gen_failed,
                   upload_files, outcome, prev_clean>>

\* processed_results of store s's sub-pipeline: one record per upload made.
Results(s) ==
    [i \in 1..Len(attempts[s]) |->
        [object_key |-> attempts[s][i], success |-> attempts[s][i] \notin failed[s]]]

\* sum(1 for r in processed_results if r.get('success', False))
RECURSIVE CountSuccess(_)
CountSuccess(rs) ==
    IF rs = <<>> THEN 0
    ELSE (IF Head(rs).success THEN 1 ELSE 0) + CountSuccess(Tail(rs))

\* A quotient of two counts; the float 0.0.
Ratio(a, b) == [num |-> a, den |-> b]
ZeroRate == [num |-> 0, den |-> 1]

\* The statistics returned on the paths that upload nothing.
ZeroStats ==
    [total_uploads |-> 0, successful_uploads |-> 0, failed_uploads |-> 0,
     success_rate |-> ZeroRate]

\* Variant: every outcome is counted as a success.
StatsOfAllSuccessful(rs) ==
    [total_uploads |-> Len(rs), successful_uploads |-> Len(rs), failed_uploads |-> 0,
     success_rate |-> IF Len(rs) > 0 THEN Ratio(Len(rs), Len(rs)) ELSE ZeroRate]

\* The statistics computed from the outcomes.
StatsOf(rs) ==
    LET total == Len(rs)
        successful == CountSuccess(rs)
    IN [total_uploads |-> total, successful_uploads |-> successful,
        failed_uploads |-> total - successful,
        success_rate |-> IF total > 0 THEN Ratio(successful, total) ELSE ZeroRate]

\* The statistics of store s's sub-pipeline once it has returned.
UploadStats(s) == IF status[s] = "done" THEN StatsOf(Results(s)) ELSE ZeroStats

\* newly_generated: the synthesis results with audio_generated and not existed.
NewlyGenerated ==
    LET Generated(k) == k \notin gen_failed
    IN SelectSeq(synth, Generated)

\* Variant: local_existed counts every local file, the generated ones too.
ReportCountsAllLocal ==
    [total |-> Len(missing),
     generated |-> Len(NewlyGenerated),
     local_existed |-> Len(local_files),
     uploaded_r2 |-> UploadStats("r2").successful_uploads,
     uploaded_cos |-> UploadStats("cos").successful_uploads,
     r2_stats |-> UploadStats("r2"),
     cos_stats |-> UploadStats("cos")]

\* The statistics record of generate_and_upload_audio (without the timings).
Report ==
    [total |-> Len(missing),
     generated |-> Len(NewlyGenerated),
     local_existed |-> Len(local_files) - Len(NewlyGenerated),
     uploaded_r2 |-> UploadStats("r2").successful_uploads,
     uploaded_cos |-> UploadStats("cos").successful_uploads,
     r2_stats |-> UploadStats("r2"),
     cos_stats |-> UploadStats("cos")]

\* Both sub-pipelines are through: the statistics.  The performance entry
\* reads the name upload_files, which the function never binds: NameError
\* whenever the measured upload time is positive.
Finish ==
    /\ mode = "batch"
    /\ step = "upload"
    /\ \A s \in Stores : status[s] # "todo"
    /\ outcome' \in {"stats", "NameError"}
    /\ step' = "done"
    /\ UNCHANGED <<episodes, helpers, configured, bucket, audio_dir, edge_tts, mode, sentences, run,
                   listing, found, missing, local_files, need_generate, synth, gen_failed,
                   upload_files, status, attempts, failed, prev_clean>>

\* ------------------------------------------------------- phrase pipeline
\* generate_and_upload_phrase_audio up to the local file: the empty phrase is
\* refused; the point check of both stores (a look-up that fails, or
\* check_existing = False, reports absent); present in both ends the run.
PhraseCheck ==
    /\ mode = "phrase"
    /\ NewRun
    /\ LET k == sentences[1]
       IN IF ~HasText(k)
          THEN /\ listing' = [s \in Stores |-> "none"]
               /\ found' = [s \in Stores |-> {}]
               /\ missing' = <<>>
               /\ step' = "done"
               /\ outcome' = "error"
          ELSE \E ok \in [Stores -> BOOLEAN] :
                 LET f == [s \in Stores |-> Listing(s, ok[s]) \cap {k}]
                 IN /\ listing' = [s \in Stores |-> ListingState(s, ok[s])]
                    /\ found' = f
                    /\ missing' = Missing(sentences, f)
                    /\ step' = IF AudioExists(k, f) THEN "done" ELSE "generate"
                    /\ outcome' = IF AudioExists(k, f) THEN "existed" ELSE "none"
    /\ UNCHANGED <<episodes, helpers, configured, bucket, audio_dir, edge_tts, mode, sentences>>

\* The local file, or else the synthesis; then the one file is listed for
\* upload to R2 and to COS, both flags set.
PhraseGenerate ==
    /\ mode = "phrase"
    /\ step = "generate"
    /\ LET k == sentences[1]
       IN IF IsStaged(k)
          THEN /\ local_files' = <<k>>
               /\ upload_files' = [s \in Stores |-> <<k>>]
               /\ status' = [s \in Stores |-> "todo"]
               /\ step' = "upload"
               /\ UNCHANGED <<audio_dir, need_generate, synth, gen_failed, outcome>>
          ELSE \E r \in SynthResults :
                 /\ edge_tts \/ r = "failed"
                 /\ need_generate' = <<k>>
                 /\ synth' = <<k>>
                 /\ audio_dir' = [audio_dir EXCEPT ![k] = FileAfter(k, r)]
                 /\ IF r = "ok"
                    THEN /\ local_files' = <<k>>
                         /\ upload_files' = [s \in Stores |-> <<k>>]
                         /\ status' = [s \in Stores |-> "todo"]
                         /\ step' = "upload"
                         /\ UNCHANGED <<gen_failed, outcome>>
                    ELSE /\ gen_failed' = {k}
                         /\ step' = "done"
                         /\ outcome' = "generation_failed"
                         /\ UNCHANGED <<local_files, upload_files, status>>
    /\ UNCHANGED <<episodes, helpers, configured, bucket, edge_tts, mode, sentences, run, listing,
                   found, missing, attempts, failed, prev_clean>>

\* uploaded_r2 / uploaded_cos: successful_uploads > 0 in the store's statistics.
Uploaded(s) == status[s] = "done" /\ Range(attempts[s]) \ failed[s] # {}

\* Both sub-pipelines are through: the result.
PhraseFinish ==
    /\ mode = "phrase"
    /\ step = "upload"
    /\ \A s \in Stores : status[s] # "todo"
    /\ outcome' = "result"
    /\ step' = "done"
    /\ UNCHANGED <<episodes, helpers, configured, bucket, audio_dir, edge_tts, mode, sentences, run,
                   listing, found, missing, local_files, need_generate, synth, gen_failed,
                   upload_files, status, attempts, failed, prev_clean>>

\* ------------------------------------------------------------ NextAudio
\* The episode service makes no call; stores, local files and configuration
\* are as the pipeline finds them.
InitAudio ==
    /\ NoHelpers
    /\ fs = [e \in Episodes |-> NoFile]
    /\ lockIno = [e \in Episodes |-> 0]
    /\ lockGen = lockIno
    /\ clock = 0
    /\ started = 0
    /\ pc = [c \in Callers |-> "idle"]
    /\ arg = [c \in Callers |-> NoArg]
    /\ loc = [c \in Callers |-> NoData]
    /\ held = [c \in Callers |-> 0]
    /\ ret = [c \in Callers |-> NoRet]
    /\ ver0 = [e \in Episodes |-> 0]
    /\ lastVer = ver0
    /\ okUpd = [e \in Episodes |-> 0]
    /\ configured \in [Stores -> BOOLEAN]
    /\ bucket \in [Stores -> SUBSET Keys]
    /\ audio_dir \in [Keys -> FileStates]
    /\ edge_tts \in BOOLEAN
    /\ mode \in {"batch", "phrase"}
    /\ sentences \in IF mode = "batch" THEN Batches ELSE Phrases
    /\ run = 0
    /\ step = "idle"
    /\ listing = [s \in Stores |-> "none"]
    /\ found = [s \in Stores |-> {}]
    /\ missing = <<>>
    /\ local_files = <<>>
    /\ need_generate = <<>>
    /\ synth = <<>>
    /\ gen_failed = {}
    /\ upload_files = [s \in Stores |-> <<>>]
    /\ status = [s \in Stores |-> "idle"]
    /\ attempts = [s \in Stores |-> <<>>]
    /\ failed = [s \in Stores |-> {}]
    /\ outcome = "none"
    /\ prev_clean = TRUE

NextAudio ==
    \/ CheckAll
    \/ Partition
    \/ Synthesize
    \/ Prepare
    \/ \E s \in Stores : UploadStore(s)
    \/ Finish
    \/ PhraseCheck
    \/ PhraseGenerate
    \/ PhraseFinish

SpecAudio == InitAudio /\ [][NextAudio]_vars

\* ------------------------------------------------- batches with repeated texts
\* Batches in which one text occurs more than once: the items share their
\* fingerprint, their local file and their object key.
DupBatches == {<<1, 1>>, <<2, 1, 1>>}

\* The batch pipeline run on such a batch.
InitDup ==
    /\ NoHelpers
    /\ fs = [e \in Episodes |-> NoFile]
    /\ lockIno = [e \in Episodes |-> 0]
    /\ lockGen = lockIno
    /\ clock = 0
    /\ started = 0
    /\ pc = [c \in Callers |-> "idle"]
    /\ arg = [c \in Callers |-> NoArg]
    /\ loc = [c \in Callers |-> NoData]
    /\ held = [c \in Callers |-> 0]
    /\ ret = [c \in Callers |-> NoRet]
    /\ ver0 = [e \in Episodes |-> 0]
    /\ lastVer = ver0
    /\ okUpd = [e \in Episodes |-> 0]
    /\ configured \in [Stores -> BOOLEAN]
    /\ bucket \in [Stores -> SUBSET Keys]
    /\ audio_dir \in [Keys -> FileStates]
    /\ edge_tts \in BOOLEAN
    /\ mode = "batch"
    /\ sentences \in DupBatches
    /\ run = 0
    /\ step = "idle"
    /\ listing = [s \in Stores |-> "none"]
    /\ found = [s \in Stores |-> {}]
    /\ missing = <<>>
    /\ local_files = <<>>
    /\ need_generate = <<>>
    /\ synth = <<>>
    /\ gen_failed = {}
    /\ upload_files = [s \in Stores |-> <<>>]
    /\ status = [s \in Stores |-> "idle"]
    /\ attempts = [s \in Stores |-> <<>>]
    /\ failed = [s \in Stores |-> {}]
    /\ outcome = "none"
    /\ prev_clean = TRUE

NextDup ==
    \/ CheckAll
    \/ Partition
    \/ Synthesize
    \/ Prepare
    \/ \E s \in Stores : UploadStore(s)
    \/ Finish

SpecDup == InitDup /\ [][NextDup]_vars

\* ------------------------------------------------------------- main()
\* The driver reads the data file, keeps the items of the selected episode
\* range, checks them, reports totals and percentages, and generates and
\* uploads what is missing.
EpisodeIds == 1..3
DataFile == <<[episode_id |-> 1, en |-> 1], [episode_id |-> 2, en |-> EmptyText]>>

\* filtered_sentences: the items with START_EPISODE <= episode_id <= END_EPISODE
InRange(data, lo, hi) ==
    LET Selected(item) == lo <= item.episode_id /\ item.episode_id <= hi
    IN SelectSeq(data, Selected)

\* The texts of a list of items.
Texts(items) == [i \in 1..Len(items) |-> items[i].en]

\* all_results of check_all_sentences: one record per item that has text.
AllResults == SelectSeq(sentences, HasText)

\* The report of generate_and_upload_audio for an empty list.
EmptyReport == [total |-> 0, generated |-> 0, uploaded_r2 |-> 0, uploaded_cos |-> 0]

InitMain ==
    /\ NoHelpers
    /\ fs = [e \in Episodes |-> NoFile]
    /\ lockIno = [e \in Episodes |-> 0]
    /\ lockGen = lockIno
    /\ clock = 0
    /\ started = 0
    /\ pc = [c \in Callers |-> "idle"]
    /\ arg = [c \in Callers |-> NoArg]
    /\ loc = [c \in Callers |-> NoData]
    /\ held = [c \in Callers |-> 0]
    /\ ret = [c \in Callers |-> NoRet]
    /\ ver0 = [e \in Episodes |-> 0]
    /\ lastVer = ver0
    /\ okUpd = [e \in Episodes |-> 0]
    /\ configured \in [Stores -> BOOLEAN]
    /\ bucket \in [Stores -> SUBSET Keys]
    /\ audio_dir \in [Keys -> FileStates]
    /\ edge_tts \in BOOLEAN
    /\ mode = "batch"
    /\ \E lo, hi \in EpisodeIds : sentences = Texts(InRange(DataFile, lo, hi))
    /\ run = 0
    /\ step = "idle"
    /\ listing = [s \in Stores |-> "none"]
    /\ found = [s \in Stores |-> {}]
    /\ missing = <<>>
    /\ local_files = <<>>
    /\ need_generate = <<>>
    /\ synth = <<>>
    /\ gen_failed = {}
    /\ upload_files = [s \in Stores |-> <<>>]
    /\ status = [s \in Stores |-> "idle"]
    /\ attempts = [s \in Stores |-> <<>>]
    /\ failed = [s \in Stores |-> {}]
    /\ outcome = "none"
    /\ prev_clean = TRUE

\* check_all_sentences as main() calls it: both listings, then the membership
\* tests; it returns (all_results, missing_sentences).
MainCheck ==
    /\ mode = "batch"
    /\ NewRun
    /\ \E ok \in [Stores -> BOOLEAN] :
         LET f == [s \in Stores |-> Listing(s, ok[s])]
         IN /\ listing' = [s \in Stores |-> ListingState(s, ok[s])]
            /\ found' = f
            /\ missing' = Missing(sentences, f)
    /\ step' = "statistics"
    /\ outcome' = "none"
    /\ UNCHANGED <<episodes, helpers, configured, bucket, audio_dir, edge_tts, mode, sentences>>

\* The statistics main() logs after the check: total_sentences, and the two
\* percentages x * 100 / total_sentences, which raise ZeroDivisionError when
\* all_results is empty; then generate_and_upload_audio if something is
\* missing.
MainStatistics ==
    /\ mode = "batch"
    /\ step = "statistics"
    /\ IF Len(AllResults) = 0
       THEN /\ step' = "done"
            /\ outcome' = "ZeroDivisionError"
       ELSE IF missing = <<>>
            THEN /\ step' = "done"
                 /\ outcome' = "nothing_missing"
            ELSE /\ step' = "generate"
                 /\ UNCHANGED outcome
    /\ UNCHANGED <<episodes, helpers, configured, bucket, audio_dir, edge_tts, mode, sentences, run,
                   listing, found, missing, local_files, need_generate, synth, gen_failed,
                   upload_files, status, attempts, failed, prev_clean>>

\* generate_and_upload_audio([]): the report with every count 0, before
\* edge-tts is looked for, nothing synthesized and nothing uploaded.
GenerateNothing ==
    /\ mode = "batch"
    /\ NewRun
    /\ listing' = [s \in Stores |-> "none"]
    /\ found' = [s \in Stores |-> {}]
    /\ missing' = <<>>
    /\ step' = "done"
    /\ outcome' = "empty_report"
    /\ UNCHANGED <<episodes, helpers, configured, bucket, audio_dir, edge_tts, mode, sentences>>

NextMain ==
    \/ MainCheck
    \/ MainStatistics
    \/ Partition
    \/ Synthesize
    \/ Prepare
    \/ \E s \in Stores : UploadStore(s)
    \/ Finish
    \/ GenerateNothing

SpecMain == InitMain /\ [][NextMain]_vars

\* ==================================================== generate_phrase_audio_async
\* One call of generate_phrase_audio_async(phrase, output_path, max_retries).

\* The episode service makes no call.
NoEpisodes ==
    /\ fs = [e \in Episodes |-> NoFile]
    /\ lockIno = [e \in Episodes |-> 0]
    /\ lockGen = lockIno
    /\ clock = 0
    /\ started = 0
    /\ pc = [c \in Callers |-> "idle"]
    /\ arg = [c \in Callers |-> NoArg]
    /\ loc = [c \in Callers |-> NoData]
    /\ held = [c \in Callers |-> 0]
    /\ ret = [c \in Callers |-> NoRet]
    /\ ver0 = [e \in Episodes |-> 0]
    /\ lastVer = ver0
    /\ okUpd = [e \in Episodes |-> 0]

\* What one attempt can do: save a non-empty file, save an empty file, run
\* into the timeout of asyncio.wait_for, or raise another exception.
AttemptResults == {"saved", "empty", "timeout", "error"}
Retried == {"timeout", "error"}

\* The call up to the retry loop: without edge-tts or without text it returns
\* False at once.
GenCall ==
    /\ gen_pc = "idle"
    /\ IF ~tts_available \/ gen_phrase = "blank"
       THEN /\ gen_pc' = "returned"
            /\ gen_ret' = "False"
       ELSE /\ gen_pc' = "attempt"
            /\ UNCHANGED gen_ret
    /\ attempt' = 0
    /\ UNCHANGED <<episodes, audio, text, endpoint, keys, uploads, lists, tts_available,
                   gen_phrase, max_retries, out_file,
                   gen_log, slept>>

\* Variant: a timeout or an error ends the call at once.
GenAttemptNoRetry ==
    /\ gen_pc = "attempt"
    /\ \E r \in AttemptResults :
         /\ gen_log' = Append(gen_log, r)
         /\ out_file' \in CASE r = "saved" -> {"full"}
                           [] r = "empty" -> {"empty"}
                           [] OTHER -> {out_file, "empty"}
         /\ gen_pc' = "returned"
         /\ gen_ret' = IF r = "saved" THEN "True" ELSE "False"
    /\ UNCHANGED <<episodes, audio, text, endpoint, keys, uploads, lists, tts_available,
                   gen_phrase, max_retries, attempt, slept>>

\* Variant: an empty output file is retried like a timeout.
GenAttemptRetriesEmpty ==
    /\ gen_pc = "attempt"
    /\ \E r \in AttemptResults :
         /\ gen_log' = Append(gen_log, r)
         /\ out_file' \in CASE r = "saved" -> {"full"}
                           [] r = "empty" -> {"empty"}
                           [] OTHER -> {out_file, "empty"}
         /\ IF r \in Retried \cup {"empty"} /\ attempt < max_retries
            THEN /\ gen_pc' = "sleep"
                 /\ UNCHANGED gen_ret
            ELSE /\ gen_pc' = "returned"
                 /\ gen_ret' = IF r = "saved" THEN "True" ELSE "False"
    /\ UNCHANGED <<episodes, audio, text, endpoint, keys, uploads, lists, tts_available,
                   gen_phrase, max_retries, attempt, slept>>

\* One turn of the retry loop: Communicate(...).save under wait_for, then the
\* size check; the two except clauses go on to the delay while
\* attempt < max_retries and return False otherwise.
GenAttempt ==
    /\ gen_pc = "attempt"
    /\ \E r \in AttemptResults :
         /\ gen_log' = Append(gen_log, r)
         /\ out_file' \in CASE r = "saved" -> {"full"}
                           [] r = "empty" -> {"empty"}
                           [] OTHER -> {out_file, "empty"}
         /\ IF r \in Retried /\ attempt < max_retries
            THEN /\ gen_pc' = "sleep"
                 /\ UNCHANGED gen_ret
            ELSE /\ gen_pc' = "returned"
                 /\ gen_ret' = IF r = "saved" THEN "True" ELSE "False"
    /\ UNCHANGED <<episodes, audio, text, endpoint, keys, uploads, lists, tts_available,
                   gen_phrase, max_retries, attempt, slept>>

\* await asyncio.sleep(1); continue
GenSleep ==
    /\ gen_pc = "sleep"
    /\ slept' = slept + 1
    /\ attempt' = attempt + 1
    /\ gen_pc' = "attempt"
    /\ UNCHANGED <<episodes, audio, text, endpoint, keys, uploads, lists, tts_available,
                   gen_phrase, max_retries, out_file,
                   gen_log, gen_ret>>

InitSynth ==
    /\ NoEpisodes
    /\ NoAudio
    /\ NoText
    /\ NoEndpoint
    /\ NoKeys
    /\ NoUploads
    /\ NoLists
    /\ tts_available \in BOOLEAN
    /\ gen_phrase \in {"text", "blank"}
    /\ max_retries \in 0..MaxRetries
    /\ out_file \in FileStates
    /\ gen_pc = "idle"
    /\ attempt = 0
    /\ gen_log = <<>>
    /\ slept = 0
    /\ gen_ret = "none"

NextSynth ==
    \/ GenCall
    \/ GenAttempt
    \/ GenSleep

SpecSynth == InitSynth /\ [][NextSynth]_vars

\* ================================================================ phrase helpers
\* format_phrase_for_tts, clean_phrase_filename and generate_phrase_hash on
\* texts written as sequences of characters.

LowerLetters == {"a", "b", "c", "e", "f", "h", "i", "k", "p", "r", "s", "t", "u", "w"}
UpperLetters == {"S", "P", "F", "W"}
Letters == LowerLetters \cup UpperLetters
Ellipsis == "ELLIPSIS"          \* the one character U+2026
InvalidChars == {"<", ">", ":", "\"", "/", "\\", "|", "?", "*"}
Punctuation == {".", "!", "?", "'"}

\* str.lower() on one character
ToLowerChar(c) == CASE c = "S" -> "s"
                    [] c = "P" -> "p"
                    [] c = "F" -> "f"
                    [] c = "W" -> "w"
                    [] OTHER -> c

BreakTheIce == <<"b", "r", "e", "a", "k", " ", "t", "h", "e", " ", "i", "c", "e">>
SPFDotted == <<"S", ".", "P", ".", "F", ".">>
WhatsUp == <<"W", "h", "a", "t", "'", "s", " ", "u", "p", "?">>

\* The phrases the helpers are applied to: the three phrases of the docstrings,
\* "break the ice!", and every text of up to MaxLen characters of Alphabet.
Alphabet == {"a", "S", " ", ".", "!", "'"}
PhraseInputs ==
    {BreakTheIce, SPFDotted, WhatsUp, BreakTheIce \o <<"!">>}
      \cup UNION {[1..n -> Alphabet] : n \in 0..MaxLen}

\* The text without its punctuation characters.
StripPunct(s) ==
    LET NotPunct(c) == c \notin Punctuation
    IN SelectSeq(s, NotPunct)

\* The characters of s at the positions in K, in order.
RECURSIVE PickFrom(_, _, _)
PickFrom(s, K, i) ==
    IF i > Len(s) THEN <<>>
    ELSE (IF i \in K THEN <<s[i]>> ELSE <<>>) \o PickFrom(s, K, i + 1)

\* phrase.replace('.', ' ').replace('…', ' ')
DotsToSpaces(s) == [i \in 1..Len(s) |-> IF s[i] \in {".", Ellipsis} THEN " " ELSE s[i]]

\* ' '.join(phrase.split())
Collapse(s) ==
    PickFrom(s, {i \in 1..Len(s) :
                   \/ s[i] # " "
                   \/ /\ i > 1
                      /\ s[i-1] # " "
                      /\ \E j \in (i+1)..Len(s) : s[j] # " "}, 1)

\* str.isupper(): there is a cased character and every cased character is upper case
IsUpperText(s) ==
    /\ \E i \in 1..Len(s) : s[i] \in Letters
    /\ \A i \in 1..Len(s) : s[i] \in Letters => s[i] \in UpperLetters

\* ' '.join(list(s))
Spaced(s) ==
    [i \in 1..(IF s = <<>> THEN 0 ELSE 2 * Len(s) - 1) |->
        IF i % 2 = 1 THEN s[(i + 1) \div 2] ELSE " "]

\* ''.join(c for c in s if c.isalpha())
AlphaOnly(s) ==
    LET IsAlpha(c) == c \in Letters
    IN SelectSeq(s, IsAlpha)

\* phrase.split()
RECURSIVE SplitWords(_)
SplitWords(s) ==
    IF s = <<>> THEN <<>>
    ELSE LET n == IF \E i \in 1..Len(s) : s[i] = " "
                  THEN CHOOSE i \in 1..Len(s) :
                         s[i] = " " /\ \A j \in 1..(i-1) : s[j] # " "
                  ELSE Len(s) + 1
         IN IF n = 1 THEN SplitWords(Tail(s))
            ELSE <<SubSeq(s, 1, n - 1)>> \o SplitWords(SubSeq(s, n + 1, Len(s)))

\* w.replace(sub, rep), sub not empty
RECURSIVE Replace(_, _, _)
Replace(w, sub, rep) ==
    IF Len(w) < Len(sub) THEN w
    ELSE IF SubSeq(w, 1, Len(sub)) = sub
         THEN rep \o Replace(SubSeq(w, Len(sub) + 1, Len(w)), sub, rep)
         ELSE <<w[1]>> \o Replace(Tail(w), sub, rep)

\* The loop body of format_phrase_for_tts: a word whose letters are upper case
\* and more than one gets them spaced out.
FormatWord(w) ==
    LET clean_word == AlphaOnly(w)
    IN IF Len(clean_word) > 1 /\ IsUpperText(clean_word)
       THEN Replace(w, clean_word, Spaced(clean_word))
       ELSE w

\* ' '.join(words)
RECURSIVE JoinWords(_)
JoinWords(ws) ==
    IF ws = <<>> THEN <<>>
    ELSE IF Len(ws) = 1 THEN ws[1]
    ELSE ws[1] \o <<" ">> \o JoinWords(Tail(ws))

\* s.strip(c)
StripChar(s, c) ==
    PickFrom(s, {i \in 1..Len(s) :
                   /\ \E j \in 1..i : s[j] # c
                   /\ \E j \in i..Len(s) : s[j] # c}, 1)

format_phrase_for_tts(p) ==
    LET q == Collapse(DotsToSpaces(p))
        words == SplitWords(q)
    IN IF Len(q) > 1 /\ IsUpperText(q)
       THEN Spaced(q)
       ELSE StripChar(JoinWords([i \in 1..Len(words) |-> FormatWord(words[i])]), " ")

clean_phrase_filename(p) ==
    LET q == Collapse(DotsToSpaces(p))
        underscored == [i \in 1..Len(q) |-> IF q[i] = " " THEN "_" ELSE q[i]]
        Valid(c) == c \notin InvalidChars \cup {"'", "\""}
        cleaned == SelectSeq(underscored, Valid)
        alpha_only == AlphaOnly(q)
        cased == IF ~(Len(alpha_only) > 1 /\ IsUpperText(alpha_only))
                 THEN [i \in 1..Len(cleaned) |-> ToLowerChar(cleaned[i])]
                 ELSE cleaned
    IN StripChar(cased, "_")

\* hashlib.md5(s.encode()).hexdigest()[:8]: the digests of the four file names
\* of the docstrings' phrases; any other text has a digest of its own.
Md5Hex8(s) ==
    CASE s = <<"b", "r", "e", "a", "k", "_", "t", "h", "e", "_", "i", "c", "e">>
           -> <<"f", "b", "8", "1", "e", "2", "5", "2">>
      [] s = <<"b", "r", "e", "a", "k", "_", "t", "h", "e", "_", "i", "c", "e", "!">>
           -> <<"9", "d", "9", "9", "6", "d", "7", "4">>
      [] s = <<"S", "_", "P", "_", "F">>
           -> <<"b", "e", "2", "d", "7", "2", "c", "e">>
      [] s = <<"w", "h", "a", "t", "s", "_", "u", "p">>
           -> <<"f", "b", "c", "a", "6", "2", "a", "d">>
      [] OTHER -> <<"md5">> \o s

generate_phrase_hash(p) == Md5Hex8(clean_phrase_filename(p))

ApplyClean ==
    /\ "clean_phrase_filename" \notin applied
    /\ applied' = applied \cup {"clean_phrase_filename"}
    /\ clean_filename' = clean_phrase_filename(phrase)
    /\ UNCHANGED <<episodes, audio, synthesis, endpoint, keys, uploads, lists, phrase, variant, formatted_for_tts,
                   phrase_hash, variant_hash>>

ApplyFormat ==
    /\ "format_phrase_for_tts" \notin applied
    /\ applied' = applied \cup {"format_phrase_for_tts"}
    /\ formatted_for_tts' = format_phrase_for_tts(phrase)
    /\ UNCHANGED <<episodes, audio, synthesis, endpoint, keys, uploads, lists, phrase, variant, clean_filename,
                   phrase_hash, variant_hash>>

ApplyHash ==
    /\ "generate_phrase_hash" \notin applied
    /\ applied' = applied \cup {"generate_phrase_hash"}
    /\ phrase_hash' = generate_phrase_hash(phrase)
    /\ variant_hash' = generate_phrase_hash(variant)
    /\ UNCHANGED <<episodes, audio, synthesis, endpoint, keys, uploads, lists, phrase, variant, clean_filename,
                   formatted_for_tts>>

InitText ==
    /\ NoEpisodes
    /\ NoAudio
    /\ NoSynthesis
    /\ NoEndpoint
    /\ NoKeys
    /\ NoUploads
    /\ NoLists
    /\ phrase \in PhraseInputs
    /\ variant \in {q \in PhraseInputs : StripPunct(q) = StripPunct(phrase)}
    /\ applied = {}
    /\ clean_filename = <<>>
    /\ formatted_for_tts = <<>>
    /\ phrase_hash = <<>>
    /\ variant_hash = <<>>

NextText ==
    \/ ApplyClean
    \/ ApplyFormat
    \/ ApplyHash

SpecText == InitText /\ [][NextText]_vars

\* ================================================================ sentence-audio endpoint
\* generate_sentence_audio (main.py): check the synthesis library, synthesize
\* the batch, collect the files, upload them, answer.

\* The requests: one to MaxSentences sentences.
Requests == UNION {[1..n -> Keys \cup {EmptyText}] : n \in 1..MaxSentences}

\* The parameters of upload_audio_files
UploadAudioFilesParams ==
    {"upload_files", "upload_to_cos", "upload_to_r2", "max_concurrent_r2",
     "max_workers_cos", "r2_files", "cos_files"}

\* The keyword arguments the handler calls upload_audio_files with
HandlerKeywords ==
    {"upload_files", "upload_to_cos", "upload_to_r2", "max_concurrent_r2",
     "max_workers_cos", "settings"}

\* if not check_edge_tts_available(): raise HTTPException(500)
ApiCheckTts ==
    /\ api_pc = "start"
    /\ IF api_edge_tts
       THEN /\ api_pc' = "generate"
            /\ response' = response
       ELSE /\ api_pc' = "done"
            /\ response' = "http500_not_installed"
    /\ UNCHANGED <<episodes, audio, synthesis, text, keys, uploads, lists, body_sentences, api_edge_tts,
                   processed_sentences, api_upload_files>>

\* processed_sentences = await generate_batch_audio(...): one record per
\* sentence, synthesized or not, its file on disk or not; or AudioGenerationError,
\* answered with HTTPException(500).
ApiGenerate ==
    /\ api_pc = "generate"
    /\ \/ /\ \E gen \in [1..Len(body_sentences) -> BOOLEAN] :
            \E onDisk \in [1..Len(body_sentences) -> BOOLEAN] :
              processed_sentences' =
                  [i \in 1..Len(body_sentences) |->
                      [sentence_hash |-> body_sentences[i],
                       audio_generated |-> gen[i],
                       path_exists |-> onDisk[i]]]
          /\ api_pc' = "collect"
          /\ response' = response
       \/ /\ processed_sentences' = processed_sentences
          /\ api_pc' = "done"
          /\ response' = "http500_generation"
    /\ UNCHANGED <<episodes, audio, synthesis, text, keys, uploads, lists, body_sentences, api_edge_tts,
                   api_upload_files>>

\* upload_files: the sentences with audio_generated whose file exists
ApiCollect ==
    /\ api_pc = "collect"
    /\ LET Collected(s) == s.audio_generated /\ s.path_exists
       IN api_upload_files' = SelectSeq(processed_sentences, Collected)
    /\ api_pc' = "upload"
    /\ UNCHANGED <<episodes, audio, synthesis, text, keys, uploads, lists, body_sentences, api_edge_tts,
                   processed_sentences, response>>

\* await upload_audio_files(upload_files=..., ..., settings=settings): a keyword
\* that is no parameter of the function raises TypeError at the call, before
\* anything is uploaded; except Exception answers HTTPException(500,
\* "Internal server error: ..."). Otherwise the results and statistics are
\* built and returned.
ApiUpload ==
    /\ api_pc = "upload"
    /\ api_pc' = "done"
    /\ response' = IF HandlerKeywords \subseteq UploadAudioFilesParams
                   THEN "results"
                   ELSE "http500_internal"
    /\ UNCHANGED <<episodes, audio, synthesis, text, keys, uploads, lists, body_sentences, api_edge_tts,
                   processed_sentences, api_upload_files>>

InitApi ==
    /\ NoEpisodes
    /\ NoAudio
    /\ NoSynthesis
    /\ NoText
    /\ NoKeys
    /\ NoUploads
    /\ NoLists
    /\ body_sentences \in Requests
    /\ api_edge_tts \in BOOLEAN
    /\ api_pc = "start"
    /\ processed_sentences = <<>>
    /\ api_upload_files = <<>>
    /\ response = "none"

NextApi ==
    \/ ApiCheckTts
    \/ ApiGenerate
    \/ ApiCollect
    \/ ApiUpload

SpecApi == InitApi /\ [][NextApi]_vars

\* ================================================================ content identity
\* The keys of one batch (check_all_sentences, then generate_and_upload_audio
\* on the missing items) and of one phrase (generate_and_upload_phrase_audio).

Whitespace == {" ", "TAB"}

\* str.strip()
StripWs(s) ==
    PickFrom(s, {i \in 1..Len(s) :
                   /\ \E j \in 1..i : s[j] \notin Whitespace
                   /\ \E j \in i..Len(s) : s[j] \notin Whitespace}, 1)

\* hashlib.md5(text.strip().encode()).hexdigest()[:8]
generate_sentence_hash(t) == Md5Hex8(StripWs(t))

\* The sentence_hash in the records generate_batch_audio returns: the
\* fingerprint of the text it was given.
BatchAudioHash(t) == Md5Hex8(StripWs(t))

\* Sentence texts, and the batches made of them.
SentenceTexts == UNION {[1..n -> {"a", " ", "TAB"}] : n \in 0..MaxLen}
KeyBatches == UNION {[1..n -> SentenceTexts] : n \in 1..2}

\* Phrases of the phrase pipeline.
KeyPhrases == UNION {[1..n -> {"a", "S", " ", "."}] : n \in 0..MaxLen} \cup {SPFDotted}

\* f"audio/sentences/{sentence_hash}.mp3"
SentenceObjectKey(h) == <<"audio/sentences/">> \o h \o <<".mp3">>

\* Variant: the file name is derived from the text formatted for TTS.
PhraseFileNameFromTts(p) == clean_phrase_filename(format_phrase_for_tts(p))

\* clean_filename = clean_phrase_filename(phrase)
PhraseFileName(p) == clean_phrase_filename(p)

\* f"audio/expressionss/{clean_filename}.mp3"
PhraseObjectKey(name) == <<"audio/expressionss/">> \o name \o <<".mp3">>

\* The records of check_all_sentences for the items of q from position i on:
\* items without text are skipped, the others get their hash and the two flags.
RECURSIVE CheckRecords(_, _, _)
CheckRecords(q, f, i) ==
    IF i > Len(q) THEN <<>>
    ELSE LET en == StripWs(q[i])
             h == generate_sentence_hash(en)
         IN (IF en = <<>> THEN <<>>
             ELSE <<[en |-> q[i], sentence_hash |-> h,
                     r2_exists |-> h \in f["r2"], cos_exists |-> h \in f["cos"]]>>)
            \o CheckRecords(q, f, i + 1)

\* sentence_check_map = {s.get('sentence_hash'): s for s in sentences}: the
\* last record of each hash.
SentenceCheckMap(recs, h) ==
    LET at == {i \in 1..Len(recs) : recs[i].sentence_hash = h}
    IN IF at = {} THEN [hit |-> FALSE, r2_exists |-> FALSE, cos_exists |-> FALSE]
       ELSE LET r == recs[CHOOSE i \in at : \A j \in at : j <= i]
            IN [hit |-> TRUE, r2_exists |-> r.r2_exists, cos_exists |-> r.cos_exists]

\* check_all_sentences on the batch
KeysCheck ==
    /\ key_mode = "batch"
    /\ key_pc = "start"
    /\ key_results' = CheckRecords(key_batch, key_found, 1)
    /\ LET NotInBoth(r) == ~(r.r2_exists /\ r.cos_exists)
       IN key_missing' = SelectSeq(key_results', NotInBoth)
    /\ key_pc' = IF key_missing' = <<>> THEN "done" ELSE "generate"
    /\ UNCHANGED <<episodes, audio, synthesis, text, endpoint, uploads, lists, key_mode, key_batch, key_found,
                   key_local_files, key_lookups, key_phrase, key_names>>

\* generate_and_upload_audio on the missing items, up to the upload lists:
\* every item is staged, synthesized or fails; local_files holds the staged
\* files and then the synthesized ones; each local file's check record is
\* looked up by its hash, the file is named by its hash and gets its object key.
KeysGenerate ==
    /\ key_mode = "batch"
    /\ key_pc = "generate"
    /\ \E how \in [1..Len(key_missing) -> {"staged", "generated", "failed"}] :
         LET n == Len(key_missing)
             en(i) == StripWs(key_missing[i].en)
             staged == [i \in 1..n |->
                          IF how[i] = "staged" THEN generate_sentence_hash(en(i)) ELSE <<>>]
             made == [i \in 1..n |->
                        IF how[i] = "generated" THEN BatchAudioHash(en(i)) ELSE <<>>]
             IsHash(h) == h # <<>>
         IN key_local_files' = SelectSeq(staged, IsHash) \o SelectSeq(made, IsHash)
    /\ key_lookups' = [i \in 1..Len(key_local_files') |->
                          LET h == key_local_files'[i]
                              c == SentenceCheckMap(key_missing, h)
                          IN [sentence_hash |-> h,
                              object_key |-> SentenceObjectKey(h),
                              hit |-> c.hit,
                              r2_exists |-> c.r2_exists,
                              cos_exists |-> c.cos_exists]]
    /\ key_pc' = "done"
    /\ UNCHANGED <<episodes, audio, synthesis, text, endpoint, uploads, lists, key_mode, key_batch, key_found,
                   key_results, key_missing, key_phrase, key_names>>

\* generate_and_upload_phrase_audio up to the presence check: the phrase is
\* stripped, named and formatted; the check is made on the object key.
KeysPhraseNames ==
    /\ key_mode = "phrase"
    /\ key_pc = "start"
    /\ StripWs(key_phrase) # <<>>
    /\ LET p == StripWs(key_phrase)
           name == PhraseFileName(p)
       IN key_names' = [clean_filename |-> name,
                        formatted_for_tts |-> format_phrase_for_tts(p),
                        audio_filename |-> name \o <<".mp3">>,
                        object_key |-> PhraseObjectKey(name),
                        checked_key |-> PhraseObjectKey(name),
                        sent_to_tts |-> <<>>,
                        uploaded_key |-> <<>>,
                        uploaded_file |-> <<>>]
    /\ key_pc' = "named"
    /\ UNCHANGED <<episodes, audio, synthesis, text, endpoint, uploads, lists, key_mode, key_batch, key_found,
                   key_results, key_missing, key_local_files, key_lookups, key_phrase>>

\* The rest of the phrase run: generate_phrase_audio_async gets the phrase and
\* formats it for edge-tts; the file goes up under the object key.
KeysPhraseUpload ==
    /\ key_mode = "phrase"
    /\ key_pc = "named"
    /\ key_names' = [key_names EXCEPT
                       !.sent_to_tts = format_phrase_for_tts(StripWs(key_phrase)),
                       !.uploaded_key = key_names.object_key,
                       !.uploaded_file = key_names.audio_filename]
    /\ key_pc' = "done"
    /\ UNCHANGED <<episodes, audio, synthesis, text, endpoint, uploads, lists, key_mode, key_batch, key_found,
                   key_results, key_missing, key_local_files, key_lookups, key_phrase>>

InitKeys ==
    /\ NoEpisodes
    /\ NoAudio
    /\ NoSynthesis
    /\ NoText
    /\ NoEndpoint
    /\ NoUploads
    /\ NoLists
    /\ key_mode \in {"batch", "phrase"}
    /\ key_batch \in IF key_mode = "batch" THEN KeyBatches ELSE {<<>>}
    /\ key_phrase \in IF key_mode = "phrase" THEN KeyPhrases ELSE {<<>>}
    /\ key_found \in [Stores -> SUBSET {generate_sentence_hash(key_batch[i]) :
                                          i \in 1..Len(key_batch)}]
    /\ key_pc = "start"
    /\ key_results = <<>>
    /\ key_missing = <<>>
    /\ key_local_files = <<>>
    /\ key_lookups = <<>>
    /\ key_names = NoNames

NextKeys ==
    \/ KeysCheck
    \/ KeysGenerate
    \/ KeysPhraseNames
    \/ KeysPhraseUpload

SpecKeys == InitKeys /\ [][NextKeys]_vars

\* ================================================================ upload concurrency
\* One call of upload_audio_files with both stores configured and a list for
\* each: batch_upload_r2 (shared client, semaphore) and batch_upload_cos
\* (thread pool) run side by side under asyncio.gather.  An upload that is
\* "done" has succeeded or failed; its exception, if any, was caught.

Files(s) == 1..n_files[s]
InFlight == {i \in Files("r2") : tasks[i] = "uploading"}
Executing == {i \in Files("cos") : futures[i] = "running"}

\* async with session.client(...) as s3_client; semaphore; the tasks are made
\* and handed to asyncio.gather.  Or aioboto3 is missing or the client cannot
\* be made: the except branches return the error marker.
R2Open ==
    /\ r2_pc = "start"
    /\ \/ /\ s3_client' = "open"
          /\ clients_created' = clients_created + 1
          /\ tasks' = [i \in Files("r2") |-> "waiting"]
          /\ r2_pc' = "gather"
       \/ /\ r2_pc' = "error"
          /\ UNCHANGED <<s3_client, clients_created, tasks>>
    /\ UNCHANGED <<episodes, audio, synthesis, text, endpoint, keys, lists, n_files, max_concurrent,
                   max_workers, task_client, cos_pc, futures>>

\* Variant: the task does not wait for the semaphore.
R2AcquireUnbounded(i) ==
    /\ r2_pc = "gather"
    /\ tasks[i] = "waiting"
    /\ tasks' = [tasks EXCEPT ![i] = "uploading"]
    /\ task_client' = [task_client EXCEPT ![i] = s3_client]
    /\ UNCHANGED <<episodes, audio, synthesis, text, endpoint, keys, lists, n_files, max_concurrent,
                   max_workers, r2_pc, s3_client, clients_created, cos_pc, futures>>

\* async with semaphore: ... await s3_client.upload_file(...)
R2Acquire(i) ==
    /\ r2_pc = "gather"
    /\ tasks[i] = "waiting"
    /\ Cardinality(InFlight) < max_concurrent
    /\ tasks' = [tasks EXCEPT ![i] = "uploading"]
    /\ task_client' = [task_client EXCEPT ![i] = s3_client]
    /\ UNCHANGED <<episodes, audio, synthesis, text, endpoint, keys, lists, n_files, max_concurrent,
                   max_workers, r2_pc, s3_client, clients_created, cos_pc, futures>>

\* The upload returns or raises; the task leaves the semaphore with its result.
R2Finish(i) ==
    /\ r2_pc = "gather"
    /\ tasks[i] = "uploading"
    /\ tasks' = [tasks EXCEPT ![i] = "done"]
    /\ UNCHANGED <<episodes, audio, synthesis, text, endpoint, keys, lists, n_files, max_concurrent,
                   max_workers, r2_pc, s3_client, clients_created, task_client, cos_pc,
                   futures>>

\* asyncio.gather returns when every task is done; the results are processed.
R2Gathered ==
    /\ r2_pc = "gather"
    /\ \A i \in Files("r2") : tasks[i] = "done"
    /\ r2_pc' = "grace"
    /\ UNCHANGED <<episodes, audio, synthesis, text, endpoint, keys, lists, n_files, max_concurrent,
                   max_workers, s3_client, clients_created, tasks, task_client, cos_pc,
                   futures>>

\* await asyncio.sleep(2.0)
R2Sleep ==
    /\ r2_pc = "grace"
    /\ r2_pc' = "slept"
    /\ UNCHANGED <<episodes, audio, synthesis, text, endpoint, keys, lists, n_files, max_concurrent,
                   max_workers, s3_client, clients_created, tasks, task_client, cos_pc,
                   futures>>

\* Variant: the client is closed as soon as the tasks are handed to gather.
R2CloseEarly ==
    /\ r2_pc \in {"gather", "slept"}
    /\ s3_client = "open"
    /\ s3_client' = "released"
    /\ r2_pc' = IF r2_pc = "slept" THEN "returned" ELSE r2_pc
    /\ UNCHANGED <<episodes, audio, synthesis, text, endpoint, keys, lists, n_files, max_concurrent,
                   max_workers, clients_created, tasks, task_client, cos_pc, futures>>

\* The async with block ends: the client is released; statistics; return.
R2Close ==
    /\ r2_pc = "slept"
    /\ s3_client' = "released"
    /\ r2_pc' = "returned"
    /\ UNCHANGED <<episodes, audio, synthesis, text, endpoint, keys, lists, n_files, max_concurrent,
                   max_workers, clients_created, tasks, task_client, cos_pc, futures>>

\* with ThreadPoolExecutor(max_workers) as executor: one run_in_executor per file
CosSubmit ==
    /\ cos_pc = "start"
    /\ futures' = [i \in Files("cos") |-> "queued"]
    /\ cos_pc' = "gather"
    /\ UNCHANGED <<episodes, audio, synthesis, text, endpoint, keys, lists, n_files, max_concurrent,
                   max_workers, r2_pc, s3_client, clients_created, tasks, task_client>>

\* A worker of the pool takes a queued upload.
CosStart(i) ==
    /\ cos_pc = "gather"
    /\ futures[i] = "queued"
    /\ Cardinality(Executing) < max_workers
    /\ futures' = [futures EXCEPT ![i] = "running"]
    /\ UNCHANGED <<episodes, audio, synthesis, text, endpoint, keys, lists, n_files, max_concurrent,
                   max_workers, r2_pc, s3_client, clients_created, tasks, task_client, cos_pc>>

\* upload_to_cos_sync returns its result.
CosFinish(i) ==
    /\ cos_pc = "gather"
    /\ futures[i] = "running"
    /\ futures' = [futures EXCEPT ![i] = "done"]
    /\ UNCHANGED <<episodes, audio, synthesis, text, endpoint, keys, lists, n_files, max_concurrent,
                   max_workers, r2_pc, s3_client, clients_created, tasks, task_client, cos_pc>>

\* asyncio.gather returns, the executor is shut down; statistics; return.
CosGathered ==
    /\ cos_pc = "gather"
    /\ \A i \in Files("cos") : futures[i] = "done"
    /\ cos_pc' = "returned"
    /\ UNCHANGED <<episodes, audio, synthesis, text, endpoint, keys, lists, n_files, max_concurrent,
                   max_workers, r2_pc, s3_client, clients_created, tasks, task_client, futures>>

InitUpload ==
    /\ NoEpisodes
    /\ NoAudio
    /\ NoSynthesis
    /\ NoText
    /\ NoEndpoint
    /\ NoKeys
    /\ NoLists
    /\ n_files \in [Stores -> 1..MaxFiles]
    /\ max_concurrent \in 1..MaxWorkers
    /\ max_workers \in 1..MaxWorkers
    /\ r2_pc = "start"
    /\ s3_client = "none"
    /\ clients_created = 0
    /\ tasks = [i \in Files("r2") |-> "new"]
    /\ task_client = [i \in Files("r2") |-> "none"]
    /\ cos_pc = "start"
    /\ futures = [i \in Files("cos") |-> "new"]

NextUpload ==
    \/ R2Open
    \/ \E i \in Files("r2") : R2Acquire(i)
    \/ \E i \in Files("r2") : R2Finish(i)
    \/ R2Gathered
    \/ R2Sleep
    \/ R2Close
    \/ CosSubmit
    \/ \E i \in Files("cos") : CosStart(i)
    \/ \E i \in Files("cos") : CosFinish(i)
    \/ CosGathered

SpecUpload == InitUpload /\ [][NextUpload]_vars

\* The event loop runs every task that can run, the pool's workers take what is
\* queued, and an upload ends (the stores' clients have timeouts).
SpecUploadFair == SpecUpload /\ WF_vars(NextUpload)

\* ================================================================ bulk listing
\* One call of get_all_audio_files_from_r2 or of _get_cos_files_sync on a store
\* whose objects under the prefix are served in pages, followed by the
\* membership tests of check_all_sentences.

\* The object 'audio/sentences/' itself: its file name is empty.
Placeholder == 0
Objects == Keys \cup {Placeholder}

\* The ways a store can serve its objects: pages of any sizes, each object on one page.
Pagings ==
    UNION {{p \in [1..n -> SUBSET Objects] :
              \A i, j \in 1..n : i # j => p[i] \cap p[j] = {}} : n \in 0..MaxPages}

\* All the file names under the prefix.
AllFileNames(pages) == UNION {pages[i] : i \in 1..Len(pages)} \ {Placeholder}

NoToken == 0

\* The store's answer to a request for page p: its contents, whether more
\* follow and where to go on.  R2 answers IsTruncated with a boolean and gives
\* NextContinuationToken, COS answers with 'true' / 'false' and gives NextMarker.
Response(s, pages, p) ==
    LET more == p < Len(pages)
    IN [Contents |-> IF p \in 1..Len(pages) THEN pages[p] ELSE {},
        IsTruncated |-> IF s = "r2" THEN more ELSE IF more THEN "true" ELSE "false",
        Next |-> IF more THEN p + 1 ELSE NoToken]

\* Variant: the loop goes on whatever the store says.
MorePagesAlways(s, resp) == TRUE

\* Variant: the loop ends after the first page.
MorePagesNever(s, resp) == FALSE

\* if response.get('IsTruncated'):  /  if response.get('IsTruncated') == 'true':
MorePages(s, resp) ==
    IF s = "r2" THEN resp.IsTruncated = TRUE ELSE resp.IsTruncated = "true"

\* Variant: a failed page request returns the names read so far.
FailureResultPartial(existing) == existing

\* except Exception: return set()
FailureResult(existing) == {}

\* The library is imported and the configuration read; the client is made.
LsBegin ==
    /\ ls_pc = "start"
    /\ IF ~ls_library
       THEN /\ ls_pc' = "done"
            /\ ls_how' = "import_error"
            /\ ls_result' = {}
       ELSE IF ~ls_configured
       THEN /\ ls_pc' = "done"
            /\ ls_how' = "config"
            /\ ls_result' = {}
       ELSE /\ ls_pc' = "loop"
            /\ UNCHANGED <<ls_how, ls_result>>
    /\ UNCHANGED <<episodes, audio, synthesis, text, endpoint, keys, uploads, ls_store,
                   ls_library, ls_configured, ls_pages, ls_token, existing_files, requested,
                   ls_present>>

\* One turn of the while loop: the request with the token (or marker) at hand,
\* the file names of the page, then the next token or the end of the loop.  A
\* request that raises ends the call in the except branch.
LsPage ==
    /\ ls_pc = "loop"
    /\ Len(requested) <= MaxPages
    /\ LET p == IF ls_token = NoToken THEN 1 ELSE ls_token
           resp == Response(ls_store, ls_pages, p)
       IN \/ /\ requested' = Append(requested, p)
             /\ existing_files' = existing_files \cup (resp.Contents \ {Placeholder})
             /\ IF MorePages(ls_store, resp)
                THEN /\ ls_token' = resp.Next
                     /\ UNCHANGED <<ls_pc, ls_how, ls_result>>
                ELSE /\ ls_pc' = "done"
                     /\ ls_how' = "ok"
                     /\ ls_result' = existing_files'
                     /\ UNCHANGED ls_token
          \/ /\ requested' = Append(requested, p)
             /\ ls_pc' = "done"
             /\ ls_how' = "failed"
             /\ ls_result' = FailureResult(existing_files)
             /\ UNCHANGED <<ls_token, existing_files>>
    /\ UNCHANGED <<episodes, audio, synthesis, text, endpoint, keys, uploads, ls_store,
                   ls_library, ls_configured, ls_pages, ls_present>>

\* check_all_sentences: sentence_hash in r2_files / in cos_files
LsMembership ==
    /\ ls_pc = "done"
    /\ ls_present' = {k \in Keys : k \in ls_result}
    /\ ls_pc' = "checked"
    /\ UNCHANGED <<episodes, audio, synthesis, text, endpoint, keys, uploads, ls_store,
                   ls_library, ls_configured, ls_pages, ls_token, existing_files, requested,
                   ls_how, ls_result>>

InitListing ==
    /\ NoEpisodes
    /\ NoAudio
    /\ NoSynthesis
    /\ NoText
    /\ NoEndpoint
    /\ NoKeys
    /\ NoUploads
    /\ ls_store \in Stores
    /\ ls_library \in BOOLEAN
    /\ ls_configured \in BOOLEAN
    /\ ls_pages \in Pagings
    /\ ls_pc = "start"
    /\ ls_token = NoToken
    /\ existing_files = {}
    /\ requested = <<>>
    /\ ls_how = "none"
    /\ ls_result = {}
    /\ ls_present = {}

NextListing ==
    \/ LsBegin
    \/ LsPage
    \/ LsMembership

SpecListing == InitListing /\ [][NextListing]_vars

\* Every request is answered or raises, and the loop takes its next turn.
SpecListingFair == SpecListing /\ WF_vars(NextListing)

\* ================================================================ properties

\* C1: concurrent update_sentence calls on one existing document that succeed
\* return pairwise distinct versions, each the version stored when the caller
\* wrote, and after n successes on a document that started at version v the
\* stored version is v + n.
C1_DistinctVersions ==
    /\ \A e \in Episodes :
         fs[e].kind = "json" => fs[e].data.version = ver0[e] + okUpd[e]
    /\ \A c \in Callers :
         pc[c] = "exit" /\ ret[c].kind = "ok"
            => ret[c].version = fs[ret[c].eid].data.version
    /\ \A c \in Callers : \A q \in Callers \ {c} :
         ret[c].kind = "ok" /\ ret[q].kind = "ok" /\ ret[c].eid = ret[q].eid
            => ret[c].version # ret[q].version

\* Two update_sentence calls on the same episode both succeeded.
C1_Witness ==
    \E e \in Episodes :
        /\ okUpd[e] = 2
        /\ fs[e].data.version = ver0[e] + 2
        /\ \A c \in Callers : ret[c].kind = "ok" /\ ret[c].eid = e

\* C2: no lost update: the stored document holds, at its index, the sentence
\* of every update_sentence call that succeeded, when the other caller's
\* update_sentence on the same episode is at a different index.
C2_NoLostUpdate ==
    \A c \in Callers :
        (/\ arg[c].op = "update_sentence"
         /\ ret[c].kind = "ok"
         /\ \A q \in Callers \ {c} :
              ~(arg[q].op = "update_sentence" /\ arg[q].eid = arg[c].eid
                /\ arg[q].idx = arg[c].idx))
        => /\ fs[arg[c].eid].kind = "json"
           /\ fs[arg[c].eid].data.sentences[arg[c].idx + 1] = arg[c].sentence

\* Two update_sentence calls at indices 0 and 1 of one episode both succeeded
\* and the document holds both sentences.
C2_Witness ==
    \E e \in Episodes :
        /\ fs[e].kind = "json"
        /\ fs[e].data.sentences = <<"a", "b">>
        /\ \A c \in Callers :
             arg[c].op = "update_sentence" /\ arg[c].eid = e /\ ret[c].kind = "ok"
        /\ \E c \in Callers : arg[c].idx = 0
        /\ \E c \in Callers : arg[c].idx = 1

\* C3 (as amended): every successful write onto an existing parseable document
\* stores and returns the version of the previous successful write plus one,
\* so versions strictly increase while the document exists; a write that
\* finds no parseable document (never saved, or deleted) stores version 1.
C3_VersionsIncreaseWhileStored ==
    [][\A c \in Callers :
         (pc[c] \in {"save_write", "upd_write"} /\ pc'[c] = "exit")
         => LET e == arg[c].eid
            IN /\ fs'[e].kind = "json"
               /\ ret'[c].version = fs'[e].data.version
               /\ IF fs[e].kind = "json"
                  THEN /\ fs[e].data.version = lastVer[e]
                       /\ fs'[e].data.version = lastVer[e] + 1
                  ELSE fs'[e].data.version = 1]_vars

\* A save and an update_sentence followed one another on a stored document.
C3_Witness ==
    \E e \in Episodes :
        /\ ver0[e] > 0
        /\ okUpd[e] = 1
        /\ lastVer[e] = ver0[e] + 2
        /\ fs[e].kind = "json" /\ fs[e].data.version = lastVer[e]

\* C3 (as stated): every successful write stores a version strictly greater
\* than the version of the previous successful write on that episode id.
C3_VersionsAlwaysIncrease ==
    [][\A c \in Callers :
         (pc[c] \in {"save_write", "upd_write"} /\ pc'[c] = "exit")
         => fs'[arg[c].eid].data.version > lastVer[arg[c].eid]]_vars

\* C4: save_episode stores version 1 when no document exists and version
\* v + 1 with the old created_at when a document (v, created_at) exists; the
\* stored sentences and metadata are those of the call (no metadata is stored
\* as the empty mapping), and the result carries the stored version and the
\* number of sentences.
C4_SaveContract ==
    [][\A c \in Callers :
         (pc[c] = "save_write" /\ pc'[c] = "exit")
         => LET e == arg[c].eid
                old == fs[e]
                new == fs'[e]
            IN /\ new.kind = "json"
               /\ new.data.episode_id = e
               /\ new.data.sentences = arg[c].sentences
               /\ new.data.metadata = (IF arg[c].meta = "None" THEN "{}" ELSE arg[c].meta)
               /\ old.kind = "none" => new.data.version = 1
               /\ old.kind = "json" =>
                    /\ new.data.version = old.data.version + 1
                    /\ new.data.created_at = old.data.created_at
               /\ ret'[c] = Ok(e, new.data.version, Len(arg[c].sentences))
               /\ \A e2 \in Episodes \ {e} : fs'[e2] = fs[e2]]_vars

\* A save replaced an existing version-1 document at a later clock reading.
C4_Witness ==
    \E c \in Callers :
        /\ pc[c] = "exit"
        /\ arg[c].op = "save_episode"
        /\ ret[c] = Ok(arg[c].eid, 2, 1)
        /\ fs[arg[c].eid].data.created_at = 0
        /\ fs[arg[c].eid].data.updated_at = 1

\* C5: a successful update_sentence at index i changes only element i of the
\* sentences, the version (by one) and updated_at: the length, every other
\* element, metadata, episode_id and created_at stay, and so does every other
\* episode's document.
C5_UpdateFrame ==
    [][\A c \in Callers :
         (pc[c] = "upd_write" /\ pc'[c] = "exit")
         => LET e == arg[c].eid
                old == fs[e]
                new == fs'[e]
            IN /\ old.kind = "json" /\ new.kind = "json"
               /\ Len(new.data.sentences) = Len(old.data.sentences)
               /\ \A j \in 1..Len(old.data.sentences) :
                    new.data.sentences[j] =
                       (IF j = arg[c].idx + 1 THEN arg[c].sentence
                                              ELSE old.data.sentences[j])
               /\ new.data.metadata = old.data.metadata
               /\ new.data.episode_id = old.data.episode_id
               /\ new.data.created_at = old.data.created_at
               /\ new.data.version = old.data.version + 1
               /\ new.data.updated_at >= old.data.updated_at
               /\ ret'[c] = Ok(e, new.data.version, arg[c].idx)
               /\ \A e2 \in Episodes \ {e} : fs'[e2] = fs[e2]]_vars

\* An update_sentence at index 1 has just written.
C5_Witness ==
    \E c \in Callers :
        /\ pc[c] = "exit"
        /\ arg[c].op = "update_sentence" /\ arg[c].idx = 1
        /\ ret[c].kind = "ok"
        /\ fs[arg[c].eid].data.sentences[2] = "b"

\* C6: update_sentence with an index below 0 or not below the number of
\* sentences raises IndexError without changing any document, and leaves the
\* `with` block with the lock released.
C6_IndexErrorLeavesDocument ==
    [][\A c \in Callers :
         LET e == arg[c].eid
         IN /\ (/\ pc[c] = "upd_read" /\ pc'[c] # "upd_read"
                /\ fs[e].kind = "json"
                /\ (arg[c].idx < 0 \/ arg[c].idx >= Len(fs[e].data.sentences)))
               => (ret'[c].kind = "IndexError" /\ pc'[c] = "exit" /\ fs' = fs)
            /\ (ret[c].kind = "IndexError" /\ pc[c] = "exit" /\ pc'[c] # "exit")
               => (/\ pc'[c] = "idle" /\ held'[c] = 0
                   /\ ret'[c].kind = "IndexError" /\ fs' = fs)]_vars

\* An update_sentence with a negative index ended with IndexError.
C6_Witness ==
    \E c \in Callers :
        /\ pc[c] = "idle"
        /\ arg[c].op = "update_sentence" /\ arg[c].idx < 0
        /\ ret[c].kind = "IndexError"
        /\ fs[arg[c].eid].kind = "json"

\* C7 (as stated): at any moment at most one caller is inside the critical
\* section (holds a lock) of an episode id.
C7_MutualExclusion ==
    \A c \in Callers : \A q \in Callers \ {c} :
        ~(held[c] # 0 /\ held[q] # 0 /\ arg[c].eid = arg[q].eid)

\* C8: a caller holds no lock once its call has ended, however it ended, and
\* holds one only inside the `with` block.
C8_LockReleased ==
    \A c \in Callers :
        /\ pc[c] = "idle" => held[c] = 0
        /\ held[c] # 0 => pc[c] \notin LockPc

\* A call that raised inside the `with` block has ended and the lock of its
\* episode is free.
C8_Witness ==
    \E c \in Callers :
        /\ pc[c] = "idle"
        /\ ret[c].kind \in {"EpisodeServiceError", "IndexError", "FileNotFoundError"}
        /\ ~Locked(arg[c].eid, OpenedLock(arg[c].eid))

\* C9: a save_episode, read_episode, update_sentence or delete_episode call
\* that leaves its wait for a lock another caller still holds ends with
\* EpisodeLockError, never held the lock and changed no document.
C9_TimeoutRaisesLockError ==
    [][\A c \in Callers :
         (/\ pc[c] \in LockPc /\ pc'[c] # pc[c]
          /\ Locked(arg[c].eid, OpenedLock(arg[c].eid)))
         => /\ ret'[c].kind = "EpisodeLockError"
            /\ pc'[c] = "idle"
            /\ held[c] = 0 /\ held'[c] = 0
            /\ fs' = fs]_vars

\* A read_episode timed out on the lock while another caller held it.
C9_Witness ==
    \E c \in Callers :
        /\ pc[c] = "idle"
        /\ arg[c].op = "read_episode"
        /\ ret[c].kind = "EpisodeLockError"
        /\ Locked(arg[c].eid, OpenedLock(arg[c].eid))

\* C10 (as stated): read_episode, update_sentence and delete_episode that find
\* no document under the lock, because a delete_episode removed it after their
\* existence check, raise EpisodeNotFoundError and change nothing.
C10_AbsentRaisesNotFound ==
    [][\A c \in Callers :
         (/\ pc[c] \in {"read_body", "upd_read", "del_doc"} /\ pc'[c] # pc[c]
          /\ fs[arg[c].eid].kind = "none")
         => (ret'[c].kind = "EpisodeNotFoundError" /\ fs' = fs)]_vars

\* C11 (as stated): read_episode, update_sentence and save_episode that find
\* an unparseable document under the lock report a failure and leave the file
\* content as it was.
C11_InvalidJsonSurfaced ==
    [][\A c \in Callers :
         (/\ pc[c] \in {"read_body", "upd_read", "save_write"} /\ pc'[c] # pc[c]
          /\ fs[arg[c].eid].kind = "bad")
         => (/\ fs'[arg[c].eid] = fs[arg[c].eid]
             /\ ret'[c].kind \notin {"ok", "none"})]_vars

C13_EpisodesIndependent ==
    /\ [](\A c \in Callers : \A q \in Callers \ {c} :
            (/\ started = 2 /\ pc[c] = "idle" /\ pc[q] = "idle"
             /\ arg[c].eid \in Episodes /\ arg[q].eid \in Episodes
             /\ arg[c].eid # arg[q].eid)
            => LET X == arg[c].eid
                   f == fs[X]
                   d0 == InitDocument(X, ver0[X])
               IN /\ ret[c].kind # "EpisodeLockError"
                  /\ arg[c].op = "save_episode" =>
                       /\ f.kind = "json"
                       /\ f.data.version = ver0[X] + 1
                       /\ f.data.sentences = arg[c].sentences
                       /\ ver0[X] > 0 => f.data.created_at = d0.created_at
                       /\ ret[c] = Ok(X, ver0[X] + 1, Len(arg[c].sentences))
                  /\ arg[c].op = "read_episode" =>
                       /\ ver0[X] > 0 =>
                            f = JsonFile(d0) /\ ret[c] = Ok(X, ver0[X], Len(d0.sentences))
                       /\ ver0[X] = 0 =>
                            ret[c].kind = (IF f.kind = "bad" THEN "EpisodeServiceError"
                                                             ELSE "EpisodeNotFoundError")
                  /\ arg[c].op = "update_sentence" =>
                       IF ver0[X] > 0 /\ arg[c].idx \in 0..(Len(d0.sentences) - 1)
                       THEN /\ f.kind = "json"
                            /\ f.data.version = ver0[X] + 1
                            /\ f.data.sentences =
                                 [d0.sentences EXCEPT ![arg[c].idx + 1] = arg[c].sentence]
                            /\ ret[c] = Ok(X, ver0[X] + 1, arg[c].idx)
                       ELSE /\ ver0[X] > 0 => f = JsonFile(d0) /\ ret[c].kind = "IndexError"
                            /\ ver0[X] = 0 =>
                                 ret[c].kind = (IF f.kind = "bad" THEN "EpisodeServiceError"
                                                                  ELSE "EpisodeNotFoundError")
                  /\ arg[c].op = "delete_episode" =>
                       /\ f.kind = "none"
                       /\ lockIno[X] = 0
                       /\ ret[c].kind \in {"ok", "EpisodeNotFoundError"}
                       /\ ver0[X] > 0 => ret[c].kind = "ok")
    /\ [][\A c \in Callers :
         (pc'[c] # pc[c] \/ ret'[c] # ret[c] \/ arg'[c] # arg[c]
            \/ loc'[c] # loc[c] \/ held'[c] # held[c])
         => LET X == arg'[c].eid
            IN /\ \A Y \in Episodes \ {X} :
                    /\ fs'[Y] = fs[Y]
                    /\ lockIno'[Y] = lockIno[Y] /\ lockGen'[Y] = lockGen[Y]
                    /\ lastVer'[Y] = lastVer[Y] /\ okUpd'[Y] = okUpd[Y]
               /\ \A q \in Callers \ {c} : held'[q] = held[q] /\ pc'[q] = pc[q]
               /\ (pc[c] \in LockPc /\ pc'[c] = "idle")
                    => \E q \in Callers \ {c} : arg[q].eid = X /\ held[q] # 0
               /\ (pc[c] \in LockPc /\ pc'[c] \notin LockPc /\ pc'[c] # "idle")
                    => /\ held'[c] # 0
                       /\ \A q \in Callers \ {c} :
                            arg[q].eid = X => held[q] # held'[c]]_vars

\* Two callers are inside the critical sections of two different episodes at
\* the same time, both having written.
C13_Witness ==
    \E c \in Callers : \E q \in Callers \ {c} :
        /\ arg[c].eid # arg[q].eid
        /\ held[c] # 0 /\ held[q] # 0
        /\ pc[c] = "exit" /\ pc[q] = "exit"
        /\ ret[c].kind = "ok" /\ ret[q].kind = "ok"
        /\ arg[c].op = "save_episode" /\ arg[q].op = "update_sentence"

C15_NoUploadWherePresent ==
    \A s \in Stores : Range(attempts[s]) \cap found[s] = {}

\* C16: with R2 configured and reported to hold the phrase's object and COS
\* unconfigured, a phrase run that has its audio file ends with a result,
\* attempts no upload to R2 and reports uploaded_r2 false, and reports
\* uploaded_cos false with the configuration-incomplete marker in the COS
\* statistics.
C16_PresentInR2NoCos ==
    (/\ mode = "phrase"
     /\ run > 0
     /\ step = "done"
     /\ gen_failed = {}
     /\ configured["r2"]
     /\ ~configured["cos"]
     /\ HasText(sentences[1])
     /\ sentences[1] \in found["r2"])
    => /\ outcome = "result"
       /\ attempts["r2"] = <<>>
       /\ ~Uploaded("r2")
       /\ ~Uploaded("cos")
       /\ status["cos"] = "config"

\* C17: an item is fully present exactly when the check of the run reports it
\* in R2 and in COS.  In the batch pipeline an item with text is in the missing
\* set exactly when it is not fully present, and a fully present item is never
\* staged, synthesized, listed for upload or uploaded; a phrase run whose check
\* reports the object in both stores has returned without synthesis or upload.
C17_FullyPresentSkipped ==
    run > 0 =>
      \A k \in Range(sentences) :
        HasText(k) =>
          LET both == k \in found["r2"] /\ k \in found["cos"]
          IN /\ mode = "batch" => (k \in Range(missing) <=> ~both)
             /\ both =>
                  /\ k \notin Range(local_files) \cup Range(need_generate) \cup Range(synth)
                  /\ \A s \in Stores : k \notin Range(upload_files[s]) \cup Range(attempts[s])
             /\ (mode = "phrase" /\ both) =>
                  /\ step = "done"
                  /\ outcome = "existed"
                  /\ synth = <<>>
                  /\ \A s \in Stores : attempts[s] = <<>>

\* C17 happens: a batch run ended with statistics; it skipped item 1, which
\* both stores were reported to hold, and uploaded item 2.
C17_Witness ==
    /\ mode = "batch"
    /\ sentences = <<1, 2>>
    /\ step = "done"
    /\ outcome = "stats"
    /\ 1 \in found["r2"] \cap found["cos"]
    /\ 2 \in Range(attempts["r2"]) \cup Range(attempts["cos"])

\* C18: local staging.  A missing item is staged exactly when its local file
\* exists with size > 0; the split puts every missing item in exactly one of
\* local_files (staged) and need_generate; the synthesis is passed exactly
\* need_generate, never a staged item, and keeps the staged items in
\* local_files; every item of local_files is listed for upload to each store
\* the check found it missing from.  The phrase pipeline synthesizes exactly
\* when the local file is absent or empty, and lists a staged file for upload.
C18_LocalStaging ==
    [][/\ (mode = "batch" /\ step = "generate" /\ step' # "done") =>
            /\ Range(local_files') = {k \in Range(missing) : audio_dir[k] = "full"}
            /\ Range(need_generate') = {k \in Range(missing) : audio_dir[k] # "full"}
            /\ Len(local_files') + Len(need_generate') = Len(missing)
            /\ step' = IF need_generate' = <<>> THEN "prepare" ELSE "synthesize"
            /\ synth' = <<>>
       /\ (mode = "batch" /\ step = "synthesize") =>
            /\ synth' = need_generate
            /\ Range(synth') \cap Range(local_files) = {}
            /\ Range(local_files) \subseteq Range(local_files')
       /\ (mode = "batch" /\ step = "prepare") =>
            /\ synth = need_generate
            /\ \A k \in Range(local_files) : \A s \in Stores :
                  k \notin found[s] => k \in Range(upload_files'[s])
       /\ (mode = "phrase" /\ step = "generate") =>
            IF audio_dir[sentences[1]] = "full"
            THEN /\ synth' = <<>>
                 /\ step' = "upload"
                 /\ \E s \in Stores : sentences[1] \in Range(upload_files'[s])
            ELSE synth' = <<sentences[1]>>
      ]_vars

\* C18 happens: in a batch run item 1 was staged and is listed for upload
\* without having been synthesized, and item 2, which was not staged, was
\* passed to synthesis, which failed and left an empty file.
C18_Witness ==
    /\ mode = "batch"
    /\ step = "upload"
    /\ synth = <<2>>
    /\ audio_dir[2] = "empty"
    /\ \E s \in Stores : 1 \in Range(upload_files[s])

C20_UnreportedItemsInBothStores ==
    (/\ mode = "batch"
     /\ step = "done"
     /\ outcome \in {"stats", "nothing_missing"})
    => \A k \in Range(sentences) :
         (/\ HasText(k)
          /\ k \notin gen_failed
          /\ \A s \in Stores : k \notin failed[s])
         => \A s \in Stores : k \in bucket[s]

\* C21: a batch run of generate_and_upload_audio on a non-empty missing list,
\* with edge-tts available, ends by returning the statistics record, whatever
\* the synthesis and upload outcomes and the configuration of the stores.
C21_BatchRunReturnsStats ==
    (/\ mode = "batch"
     /\ edge_tts
     /\ step = "done"
     /\ missing # <<>>)
    => outcome = "stats"

\* C22: one call of generate_phrase_audio_async makes at most max_retries + 1
\* attempts; only an attempt that timed out or raised is followed by another
\* one, after one delay each, as long as fewer than max_retries retries were
\* made; when every attempt timed out or raised, exactly max_retries + 1
\* attempts were made and the call returned False.
C22_BoundedRetries ==
    /\ Len(gen_log) <= max_retries + 1
    /\ gen_ret \in {"none", "True", "False"}
    /\ \A i \in 1..(Len(gen_log) - 1) : gen_log[i] \in Retried
    /\ gen_pc = "attempt" => (slept = Len(gen_log) /\ attempt = Len(gen_log))
    /\ gen_pc = "sleep" =>
         /\ gen_log[Len(gen_log)] \in Retried
         /\ Len(gen_log) <= max_retries
         /\ slept = Len(gen_log) - 1
    /\ (gen_pc = "returned" /\ gen_log # <<>>) =>
         /\ slept = Len(gen_log) - 1
         /\ (\A i \in 1..Len(gen_log) : gen_log[i] \in Retried) =>
               (Len(gen_log) = max_retries + 1 /\ gen_ret = "False")

\* C22 happens: with the default max_retries three attempts timed out or
\* raised, two delays lay between them, and the call returned False.
C22_Witness ==
    /\ max_retries = DefaultMaxRetries
    /\ gen_pc = "returned"
    /\ Len(gen_log) = DefaultMaxRetries + 1
    /\ \A i \in 1..Len(gen_log) : gen_log[i] \in Retried
    /\ slept = DefaultMaxRetries
    /\ gen_ret = "False"

C25_UnconfiguredShortCircuits ==
    /\ [](/\ \A s \in Stores :
               status[s] = "config" <=> (~configured[s] /\ upload_files[s] # <<>>
                                           /\ status[s] \notin {"todo", "idle"})
          /\ \A s \in Stores :
               status[s] = "config" => (attempts[s] = <<>> /\ failed[s] = {})
          /\ step = "done" => \A s \in Stores : status[s] # "todo")
    /\ [][\A s \in Stores :
            (~configured[s] /\ status[s] = "todo" /\ status'[s] # "todo")
            => /\ status'[s] = "config"
               /\ step' = step
               /\ bucket' = bucket
               /\ \A t \in Stores \ {s} : status'[t] = status[t]
         ]_vars

\* C25 happens: a run ended in which COS is not configured and returned the
\* marker without an attempt, and the R2 sub-pipeline uploaded its file.
C25_Witness ==
    /\ step = "done"
    /\ ~configured["cos"]
    /\ status["cos"] = "config"
    /\ attempts["cos"] = <<>>
    /\ status["r2"] = "done"
    /\ Range(attempts["r2"]) \ failed["r2"] # {}

C27_ReportCounts ==
    (mode = "batch" /\ step = "done" /\ outcome = "stats") =>
      /\ Report.generated = Cardinality(Range(synth) \ gen_failed)
      /\ Report.local_existed = Cardinality(Range(missing) \ Range(synth))
      /\ Report.generated + Report.local_existed = Len(local_files)
      /\ Report.total = Cardinality(Range(missing))
      /\ \A s \in Stores :
           (IF s = "r2" THEN Report.uploaded_r2 ELSE Report.uploaded_cos)
             = Cardinality(Range(attempts[s]) \ failed[s])
      /\ Report.r2_stats.successful_uploads = Report.uploaded_r2
      /\ Report.cos_stats.successful_uploads = Report.uploaded_cos

\* C27 happens: a batch run returned its record with one item synthesized, one
\* staged, and an upload that succeeded.
C27_Witness ==
    /\ mode = "batch"
    /\ step = "done"
    /\ outcome = "stats"
    /\ Report.generated = 1
    /\ Report.local_existed = 1
    /\ Report.total = 2
    /\ Report.uploaded_r2 + Report.uploaded_cos > 0

\* C28: for the phrases "break the ice", "S.P.F." and "What's up?",
\* clean_phrase_filename returns break_the_ice, SPF and whats_up, and
\* format_phrase_for_tts returns "break the ice", "S P F" and "What's up?".
C28_ScenarioOutputs ==
    /\ "clean_phrase_filename" \in applied =>
          /\ phrase = BreakTheIce =>
                clean_filename = <<"b", "r", "e", "a", "k", "_", "t", "h", "e", "_", "i", "c", "e">>
          /\ phrase = SPFDotted => clean_filename = <<"S", "P", "F">>
          /\ phrase = WhatsUp =>
                clean_filename = <<"w", "h", "a", "t", "s", "_", "u", "p">>
    /\ "format_phrase_for_tts" \in applied =>
          /\ phrase = BreakTheIce => formatted_for_tts = BreakTheIce
          /\ phrase = SPFDotted => formatted_for_tts = <<"S", " ", "P", " ", "F">>
          /\ phrase = WhatsUp => formatted_for_tts = WhatsUp

\* C29: generate_phrase_hash gives the same hash to a phrase and to every
\* variant of it that differs only by punctuation characters.
C29_HashIgnoresPunctuation ==
    "generate_phrase_hash" \in applied => phrase_hash = variant_hash

\* C30: generate_sentence_audio, for a request with at least one sentence and
\* the synthesis library available, once the batch is synthesized, answers
\* with the result records and the statistics, not with an error.
C30_EndpointAnswersWithResults ==
    (/\ api_pc = "done"
     /\ Len(body_sentences) >= 1
     /\ api_edge_tts
     /\ response # "http500_generation")
    => response = "results"

C33_ClientLifetime ==
    /\ clients_created <= 1
    /\ \A i \in Files("r2") :
         tasks[i] \in {"uploading", "done"} => task_client[i] = "open"
    /\ InFlight # {} => s3_client = "open"
    /\ s3_client = "released" =>
         /\ r2_pc = "returned"
         /\ \A i \in Files("r2") : tasks[i] = "done"
    /\ r2_pc \in {"gather", "grace", "slept"} => s3_client = "open"
    /\ r2_pc \in {"returned", "error"} => s3_client # "open"

\* The batch has returned after two uploads and the client is released.
C33_Witness ==
    /\ r2_pc = "returned"
    /\ s3_client = "released"
    /\ n_files["r2"] = 2
    /\ \A i \in Files("r2") : task_client[i] = "open"

\* C34: when the store is configured and every page request succeeds, the set
\* the bulk listing returns is the set of the file names of all objects under
\* the prefix over all pages, and check_all_sentences reports a fingerprint
\* present exactly when an object of that name is in the store.
C34_ListingComplete ==
    /\ (ls_pc \in {"done", "checked"} /\ ls_library /\ ls_configured) => ls_how \in {"ok", "failed"}
    /\ ls_how = "ok" => ls_result = AllFileNames(ls_pages)
    /\ (ls_how = "ok" /\ ls_pc = "checked") =>
         \A k \in Keys : k \in ls_present <=> \E i \in 1..Len(ls_pages) : k \in ls_pages[i]

\* A COS listing of three pages, objects on the first and the last, is complete.
C34_Witness ==
    /\ ls_store = "cos"
    /\ ls_how = "ok"
    /\ ls_pc = "checked"
    /\ Len(ls_pages) = 3
    /\ ls_pages[1] # {}
    /\ ls_pages[2] = {}
    /\ ls_pages[3] \cap Keys # {}

\* C35: the pagination loop requests the pages in order, each once, going on
\* from the token or marker of the page before, ends with the page after
\* which the store reports no more pages, and the call returns.
C35_ListingTerminates ==
    /\ [](/\ requested = [i \in 1..Len(requested) |-> i]
          /\ Len(requested) <= IF ls_pages = <<>> THEN 1 ELSE Len(ls_pages)
          /\ ls_how = "ok" => Len(requested) = IF ls_pages = <<>> THEN 1 ELSE Len(ls_pages)
          /\ (ls_pc = "loop" /\ requested # <<>>) => ls_token = Len(requested) + 1)
    /\ <>(ls_pc = "checked")

\* An R2 listing went through three pages.
C35_Witness ==
    /\ ls_store = "r2"
    /\ ls_how = "ok"
    /\ requested = <<1, 2, 3>>

\* C39: a bulk listing returns the complete set of file names or, when a page
\* request fails or the client library is missing, the empty set, never the
\* names of the pages read before the failure; it ends by returning, and after
\* a failure no fingerprint is reported present in the store.
C39_ListingAllOrNothing ==
    /\ ls_pc \in {"done", "checked"} =>
         \/ ls_how = "ok" /\ ls_result = AllFileNames(ls_pages)
         \/ ls_how \in {"failed", "import_error", "config"} /\ ls_result = {}
    /\ (ls_pc = "checked" /\ ls_how # "ok") => ls_present = {}

\* A request failed after a page with objects had been read.
C39_Witness ==
    /\ ls_how = "failed"
    /\ existing_files # {}
    /\ ls_result = {}
    /\ ls_pc = "checked"

\* C36: in the existence check a store whose configuration is incomplete
\* counts as holding no object, in bulk mode and in point mode alike; the
\* check does not end with an error because of it, and the other store is
\* still looked up: a successful look-up of it reports what it holds.
C36_UnconfiguredStoreIsEmpty ==
    [][(/\ run' = run + 1
        /\ \E s \in Stores : listing'[s] # "none")
       => /\ outcome' \in {"none", "nothing_missing", "existed"}
          /\ \A s \in Stores :
               /\ ~configured[s] => (listing'[s] = "config" /\ found'[s] = {})
               /\ configured[s] => listing'[s] \in {"ok", "failed"}
               /\ listing'[s] = "ok" =>
                    found'[s] = IF mode = "batch" THEN bucket[s]
                                ELSE bucket[s] \cap {sentences[1]}
      ]_vars

\* A phrase's point check found the object in the configured store while the
\* other store is not configured and holds it too.
C36_Witness ==
    /\ mode = "phrase"
    /\ run = 1
    /\ listing["cos"] = "config"
    /\ sentences[1] \in bucket["cos"]
    /\ listing["r2"] = "ok"
    /\ found["r2"] = {sentences[1]}
    /\ step = "generate"

\* C37: in generate_phrase_audio_async the first attempt that neither times
\* out nor raises ends the call: it returns True when the output file then has
\* content and False when it is empty, and no attempt follows it; a phrase
\* that is empty once stripped returns False without any attempt.
C37_FirstCompletedAttemptDecides ==
    /\ (gen_phrase = "blank" /\ gen_pc # "idle") =>
         (gen_pc = "returned" /\ gen_ret = "False" /\ gen_log = <<>> /\ slept = 0)
    /\ \A i \in 1..Len(gen_log) :
         gen_log[i] \in {"saved", "empty"} =>
           /\ i = Len(gen_log)
           /\ gen_pc = "returned"
           /\ gen_ret = IF gen_log[i] = "saved" THEN "True" ELSE "False"
           /\ out_file = IF gen_log[i] = "saved" THEN "full" ELSE "empty"
    /\ gen_ret = "True" =>
         (gen_log # <<>> /\ gen_log[Len(gen_log)] = "saved" /\ out_file = "full")

\* After a timeout the second attempt left an empty file: the call returned
\* False although a retry was left.
C37_Witness ==
    /\ max_retries = 2
    /\ gen_log = <<"timeout", "empty">>
    /\ gen_pc = "returned"
    /\ gen_ret = "False"

\* Number of items of q that are the fingerprint k.
Occurrences(k, q) ==
    LET IsK(x) == x = k
    IN Len(SelectSeq(q, IsK))

\* C38: within one batch run every fingerprint is synthesized at most once
\* and uploaded to each store at most once, also when the batch holds several
\* items of the same text.
C38_OncePerFingerprint ==
    \A k \in Keys :
        /\ Occurrences(k, synth) <= 1
        /\ \A s \in Stores : Occurrences(k, attempts[s]) <= 1

\* C40: a run over an empty batch (no item in the selected range, or only
\* items without text) ends without raising: the check finds nothing missing,
\* the statistics are reported, nothing is synthesized or uploaded, and
\* generate_and_upload_audio on an empty list reports counts that are all 0.
C40_EmptyBatchCompletes ==
    (run > 0 /\ step = "done" /\ (AllResults = <<>> \/ outcome = "empty_report")) =>
        /\ missing = <<>>
        /\ outcome \in {"nothing_missing", "empty_report"}
        /\ synth = <<>>
        /\ \A s \in Stores : attempts[s] = <<>> /\ status[s] = "idle"
        /\ outcome = "empty_report" =>
              \A f \in DOMAIN EmptyReport : EmptyReport[f] = 0

====
